---- MODULE Spec2Model ----
(***************************************************************************)
(* Relay session of weechat-alert (src/src/relay.rs): one run() of a Relay *)
(* against a peer that may refuse the connection, fail or close the stream *)
(* at any read or write, and send any framed message.                      *)
(*                                                                         *)
(* A framed message is kept in decoded form.  Its header carries the total *)
(* length and the compression byte; its body carries the identifier, the   *)
(* 3-byte body tag and the payload the tag announces.  Every record of one *)
(* hdata payload has the same keys, as on the wire, where the key list is  *)
(* sent once for all records.                                              *)
(*                                                                         *)
(* The object codec (src/src/parse.rs, message_data.rs, conversions.rs,    *)
(* hdata.rs, message.rs) is modelled on bytes: each decoder is an operator *)
(* on a sequence of 0..255, applied to inputs drawn from bounded sets.     *)
(***************************************************************************)
EXTENDS Integers, Sequences, FiniteSets, TLC

\* ------------------------------------------------------------------ bounds
MaxRecords == 2   \* records in one hdata payload
MaxTags    == 2   \* elements of one tags_array
MaxReads   == 3   \* framed reads attempted in one run
MaxTail    == 3   \* bytes that follow a length prefix in a codec input
MaxItems   == 1   \* records in one encoded hdata of the codec inputs
MaxElems   == 2   \* elements in one encoded array or hashtable

\* --------------------------------------------------------------- constants
HEADER_LENGTH == 5

\* ------------------------------------------------------------ value types
\* Option<T>
None    == <<"None">>
Some(x) == <<"Some", x>>

\* enum DataType (the variants the session looks at)
DataType_Chr(c) == <<"Chr", c>>
DataType_Int(i) == <<"Int", i>>
DataType_Ptr(p) == <<"Ptr", p>>
DataType_Str(s) == <<"Str", s>>
DataType_Arr(a) == <<"Arr", a>>

\* enum WeechatError
Io(kind)      == [tag |-> "Io", kind |-> kind]
BadPassword   == [tag |-> "BadPassword", kind |-> "-"]

\* Result<T, WeechatError>, plus the outcome of a panic!/assert!
Unit    == [unit |-> TRUE]
Ok(v)   == [st |-> "Ok", val |-> v]
Err(e)  == [st |-> "Err", val |-> e]
Panic   == [st |-> "Panic", val |-> Unit]
Pending == [st |-> "Pending", val |-> Unit]

\* enum MessageType
StrData(s) == [type |-> "StrData", str |-> s, data |-> <<>>]
HData(d)   == [type |-> "HData", str |-> None, data |-> d]

\* --------------------------------------------------- what the peer may send
Identifiers == {"_buffer_line_added", "_pong", "_nicklist"}
Strings     == {None, Some("foo"), Some("bar")}
Tags        == {Some("notify_private"), Some("notify_message")}

BasePath == "buffer" :> DataType_Ptr(Some("1a2b"))

StrArrays == UNION { [1..n -> {DataType_Str(t) : t \in Tags}] : n \in 0..MaxTags }

Highlights == {DataType_Chr(0), DataType_Chr(1)}
PlainTags  == {DataType_Arr(<<>>),
               DataType_Arr(<<DataType_Str(Some("notify_message"))>>),
               DataType_Arr(<<DataType_Str(Some("notify_private"))>>)}

\* The keys "highlight" and "tags_array" of one hdata: the values each may take
\* in a record, which all have the type the key list declares for the key; an
\* empty set stands for a key list without the key.
KeyChoices ==
    { <<Highlights, PlainTags>>,
      <<{DataType_Chr(0)}, {DataType_Arr(a) : a \in StrArrays}>>,
      <<{DataType_Chr(2)}, {DataType_Arr(<<>>), DataType_Arr(<<DataType_Str(Some("notify_private"))>>)}>>,
      <<{DataType_Chr(0)}, {DataType_Arr(<<DataType_Str(None)>>),
                            DataType_Arr(<<DataType_Str(None), DataType_Str(Some("notify_private"))>>)}>>,
      <<Highlights, {DataType_Arr(<<DataType_Int(7)>>)}>>,
      <<Highlights, {DataType_Str(Some("notify_private"))}>>,
      <<Highlights, {}>>,
      <<{DataType_Int(1)}, PlainTags>>,
      <<{}, PlainTags>>,
      <<{}, {}>> }

RecordsOf(H, T) ==
    LET withH == IF H = {} THEN {BasePath}
                 ELSE {BasePath @@ ("highlight" :> h) : h \in H}
    IN  IF T = {} THEN withH
        ELSE {r @@ ("tags_array" :> t) : r \in withH, t \in T}

KeysOf(H, T) ==
    (IF H = {} THEN {} ELSE {"highlight"}) \cup (IF T = {} THEN {} ELSE {"tags_array"})

\* body: identifier string, 3-byte tag, payload (str: one string; hda: the
\* path list, the key list and the records)
StrBodies == [identifier : {None} \cup {Some(i) : i \in Identifiers}, tag : {"str"},
              str : Strings, keys : {{}}, data : {<<>>}]
HdaBodies ==
    UNION { [identifier : {Some("_buffer_line_added"), Some("_nicklist")},
             tag : {"hda"}, str : {None},
             keys : {KeysOf(c[1], c[2])},
             data : UNION { [1..n -> RecordsOf(c[1], c[2])] : n \in 0..MaxRecords }]
            : c \in KeyChoices }
BadBodies == [identifier : {Some(i) : i \in Identifiers}, tag : {"inf"},
              str : {None}, keys : {{}}, data : {<<>>}]
Bodies    == StrBodies \cup HdaBodies \cup BadBodies

PongBody == [identifier |-> Some("_pong"), tag |-> "str", str |-> Some("foo"),
             keys |-> {}, data |-> <<>>]
\* a "_pong" with an hdata payload of no record
PongHda  == [identifier |-> Some("_pong"), tag |-> "hda", str |-> None,
             keys |-> {"highlight", "tags_array"}, data |-> <<>>]

\* ------------------------------------------------ length of a body in bytes
RECURSIVE SumSeq(_)
SumSeq(s) == IF s = <<>> THEN 0 ELSE Head(s) + SumSeq(Tail(s))

RECURSIVE SetToSeq(_)
SetToSeq(S) == IF S = {} THEN <<>>
               ELSE LET x == CHOOSE y \in S : TRUE IN <<x>> \o SetToSeq(S \ {x})

\* string and buffer: 4-byte length, then the bytes (null: length -1, no bytes)
StrLength(s) == 4 + (IF s = None THEN 0 ELSE Len(s[2]))

RECURSIVE ObjLength(_)
ObjLength(v) ==
    CASE v[1] = "Chr" -> 1
      [] v[1] = "Int" -> 4
      [] v[1] = "Str" -> StrLength(v[2])
      [] v[1] = "Ptr" -> 1 + (IF v[2] = None THEN 1 ELSE Len(v[2][2]))
      [] v[1] = "Arr" -> 7 + SumSeq([i \in 1..Len(v[2]) |-> ObjLength(v[2][i])])

\* "name:typ" specs joined by commas
KeysLength(K) ==
    LET ks == SetToSeq(K)
    IN  IF K = {} THEN 0
        ELSE SumSeq([i \in 1..Len(ks) |-> Len(ks[i]) + 4]) + (Cardinality(K) - 1)

RecordLength(r) ==
    LET ks == SetToSeq(DOMAIN r) IN SumSeq([i \in 1..Len(ks) |-> ObjLength(r[ks[i]])])

BodyLength(b) ==
    StrLength(b.identifier) + 3 +
    (CASE b.tag = "str" -> StrLength(b.str)
       [] b.tag = "hda" -> StrLength(Some("buffer")) + 4 + KeysLength(b.keys) + 4
                           + SumSeq([i \in 1..Len(b.data) |-> RecordLength(b.data[i])])
       [] OTHER -> 0)

\* a frame whose header announces the body that follows it
Framed(b, c) == [total_msg_length |-> HEADER_LENGTH + BodyLength(b), compression |-> c,
                 body |-> b]
\* a header whose total length is smaller than the header itself
Short(b)     == [total_msg_length |-> HEADER_LENGTH - 1, compression |-> 0, body |-> b]

Frames ==
    {Framed(b, 0) : b \in Bodies \cup {PongHda}}
      \cup {Framed(PongBody, c) : c \in 1..2}
      \cup {Short(PongBody)}

\* outcome of the two read_exact calls of one recv_msg: the header read fails,
\* or it returns a header and the body read fails, or both return
ReadErrors   == {"UnexpectedEof", "ConnectionReset"}
NoRead == [header_read |-> "none", body_read |-> "none", frame |-> Short(PongBody)]
ReadOutcomes ==
    [header_read : ReadErrors, body_read : {"data"}, frame : {Short(PongBody)}]
      \cup [header_read : {"data"}, body_read : ReadErrors,
            frame : {Framed(PongBody, 0), Framed(PongBody, 2), Short(PongBody)}]
      \cup [header_read : {"data"}, body_read : {"data"}, frame : Frames]

\* ---------------------------------------------------------------- the build
VARIABLE overflow_checks   \* TRUE: arithmetic overflow panics (a debug build);
                           \* FALSE: it wraps (a release build)

\* ------------------------------------------------------------ the decoders
\* MessageHeader::new.  A total below HEADER_LENGTH overflows the unsigned
\* subtraction: a panic in a checked build, and in an unchecked build a
\* wrapped length above isize::MAX, on which the vec! of recv_msg panics.
MessageHeader_new(frame) ==
    IF frame.total_msg_length < HEADER_LENGTH THEN Panic
    ELSE IF frame.compression \notin {0, 1} THEN Panic
    ELSE Ok([length |-> frame.total_msg_length - HEADER_LENGTH,
             compression |-> (frame.compression = 1)])

\* a null string among the elements of a tags_array of some record of data
NullTag(data) ==
    \E k \in 1..Len(data) :
        /\ "tags_array" \in DOMAIN data[k]
        /\ data[k]["tags_array"][1] = "Arr"
        /\ \E j \in 1..Len(data[k]["tags_array"][2]) :
              data[k]["tags_array"][2][j] = DataType_Str(None)

\* MessageData::binary_to_hdata.  extract_string on the null string (length
\* -1) computes end = 4 + (-1 as usize), which overflows.  A build with
\* overflow checks panics there.  A build without them wraps to end = 3 and
\* reports 3 bytes read, so that the object after the null string is decoded
\* from the last byte 0xFF of the length on, and the assert! or the slice of
\* extract_string or extract_pointer panics; only a null string that ends
\* the body is decoded.  The key list of the bodies sent names highlight
\* before tags_array: the last object of an hdata body is the last element
\* of the tags_array of its last record.
binary_to_hdata(data) ==
    LET n    == Len(data)
        last == data[n]["tags_array"][2]
    IN  IF ~NullTag(data) THEN Ok(HData(data))
        ELSE IF overflow_checks THEN Panic
        ELSE IF NullTag(SubSeq(data, 1, n - 1)) THEN Panic
        ELSE IF \E j \in 1..(Len(last) - 1) : last[j] = DataType_Str(None) THEN Panic
        ELSE Ok(HData(data))

\* MessageData::binary_to_strdata
binary_to_strdata(str) ==
    IF str = None /\ overflow_checks THEN Panic ELSE Ok(StrData(str))

\* MessageData::new, on the bytes of a body
MessageData_new(body) ==
    IF body.identifier = None THEN Panic
    ELSE LET msg_type == CASE body.tag = "str" -> binary_to_strdata(body.str)
                           [] body.tag = "hda" -> binary_to_hdata(body.data)
                           [] OTHER -> Panic
         IN  IF msg_type.st = "Panic" THEN Panic
             ELSE Ok([identifier |-> body.identifier[2], data |-> msg_type.val])

\* Relay::recv_msg
recv_msg(read) ==
    IF read.header_read # "data" THEN Err(Io(read.header_read))
    ELSE IF MessageHeader_new(read.frame).st = "Panic" THEN Panic
    ELSE IF read.body_read # "data" THEN Err(Io(read.body_read))
    ELSE MessageData_new(read.frame.body)

\* Relay::send_cmd, by the outcome of write_all
send_cmd(ok) == IF ok THEN Ok(Unit) ELSE Err(Io("BrokenPipe"))

\* Relay::connect_relay, by the outcome of TcpStream::connect
connect_relay(ok) == IF ok THEN Ok(Unit) ELSE Err(Io("ConnectionRefused"))

\* init_relay with the end-of-stream arm missing: every Io error is passed on
init_relay_match_eof_io(reply) ==
    CASE reply.st = "Panic" -> Panic
      [] reply.st = "Err" ->
           IF reply.val.tag # "Io" THEN Panic ELSE Err(reply.val)
      [] reply.st = "Ok" ->
           IF reply.val.identifier # "_pong" THEN Panic
           ELSE IF reply.val.data.type = "StrData" /\ reply.val.data.str = Some("foo")
                THEN Ok(Unit)
           ELSE Panic

\* init_relay with the checks of the reply missing
init_relay_match_any_reply(reply) ==
    CASE reply.st = "Panic" -> Panic
      [] reply.st = "Err" ->
           IF reply.val.tag # "Io" THEN Panic
           ELSE IF reply.val.kind = "UnexpectedEof" THEN Err(BadPassword)
           ELSE Err(reply.val)
      [] reply.st = "Ok" -> Ok(Unit)

\* Relay::init_relay: the match on the reply to the probe
init_relay_match(reply) ==
    CASE reply.st = "Panic" -> Panic
      [] reply.st = "Err" ->
           IF reply.val.tag # "Io" THEN Panic
           ELSE IF reply.val.kind = "UnexpectedEof" THEN Err(BadPassword)
           ELSE Err(reply.val)
      [] reply.st = "Ok" ->
           IF reply.val.identifier # "_pong" THEN Panic
           ELSE IF reply.val.data.type = "StrData" /\ reply.val.data.str = Some("foo")
                THEN Ok(Unit)
           ELSE Panic

\* Relay::handle_buffer_line_added: the inner loop over one tags_array;
\* TRUE when it breaks on "notify_private"
RECURSIVE scan_tags(_, _)
scan_tags(tags_array, i) ==
    IF i > Len(tags_array) THEN Ok(FALSE)
    ELSE IF tags_array[i][1] # "Str" THEN Panic
    ELSE LET tag_str == IF tags_array[i][2] = None THEN "" ELSE tags_array[i][2][2]
         IN  IF tag_str = "notify_private" THEN Ok(TRUE)
             ELSE scan_tags(tags_array, i + 1)

\* the loop over the records with play_sound assigned by every record, so
\* that the last record examined decides
RECURSIVE scan_records_last_decides(_, _, _)
scan_records_last_decides(data, i, play_sound) ==
    IF i > Len(data) THEN Ok(play_sound)
    ELSE IF "highlight" \notin DOMAIN data[i] THEN Panic
    ELSE IF data[i]["highlight"][1] # "Chr" THEN Panic
    ELSE IF data[i]["highlight"][2] = 1 THEN Ok(TRUE)
    ELSE IF "tags_array" \notin DOMAIN data[i] THEN Panic
    ELSE IF data[i]["tags_array"][1] # "Arr" THEN Panic
    ELSE LET found == scan_tags(data[i]["tags_array"][2], 1)
         IN  IF found.st = "Panic" THEN Panic
             ELSE scan_records_last_decides(data, i + 1, found.val)

\* the loop over the records without the break on highlight 1: the records
\* after it are examined as well
RECURSIVE scan_records_no_break(_, _, _)
scan_records_no_break(data, i, play_sound) ==
    IF i > Len(data) THEN Ok(play_sound)
    ELSE IF "highlight" \notin DOMAIN data[i] THEN Panic
    ELSE IF data[i]["highlight"][1] # "Chr" THEN Panic
    ELSE IF data[i]["highlight"][2] = 1 THEN scan_records_no_break(data, i + 1, TRUE)
    ELSE IF "tags_array" \notin DOMAIN data[i] THEN Panic
    ELSE IF data[i]["tags_array"][1] # "Arr" THEN Panic
    ELSE LET found == scan_tags(data[i]["tags_array"][2], 1)
         IN  IF found.st = "Panic" THEN Panic
             ELSE scan_records_no_break(data, i + 1, play_sound \/ found.val)

\* Relay::handle_buffer_line_added: the loop over the records, from record i
\* on with the play_sound reached so far
RECURSIVE scan_records(_, _, _)
scan_records(data, i, play_sound) ==
    IF i > Len(data) THEN Ok(play_sound)
    ELSE IF "highlight" \notin DOMAIN data[i] THEN Panic
    ELSE IF data[i]["highlight"][1] # "Chr" THEN Panic
    ELSE IF data[i]["highlight"][2] = 1 THEN Ok(TRUE)
    ELSE IF "tags_array" \notin DOMAIN data[i] THEN Panic
    ELSE IF data[i]["tags_array"][1] # "Arr" THEN Panic
    ELSE LET found == scan_tags(data[i]["tags_array"][2], 1)
         IN  IF found.st = "Panic" THEN Panic
             ELSE scan_records(data, i + 1, play_sound \/ found.val)

\* Relay::handle_buffer_line_added: Ok(n) after n notifications
handle_buffer_line_added(msg_type) ==
    IF msg_type.type # "HData" THEN Panic
    ELSE LET play_sound == scan_records(msg_type.data, 1, FALSE)
         IN  IF play_sound.st = "Panic" THEN Panic
             ELSE Ok(IF play_sound.val THEN 1 ELSE 0)

\* the match of run_loop with every identifier sent to the handler
run_loop_match_every_identifier(msg) == handle_buffer_line_added(msg.data)

\* Relay::run_loop: the match on the identifier of a received message
run_loop_match(msg) ==
    IF msg.identifier = "_buffer_line_added" THEN handle_buffer_line_added(msg.data)
    ELSE Ok(0)

\* the loop classifying an end of stream the way init_relay does
run_loop_try_eof_bad_password(received) ==
    IF received.st = "Err" /\ received.val.kind = "UnexpectedEof" THEN Err(BadPassword)
    ELSE received

\* Relay::run_loop: try! on the result of recv_msg in the loop
run_loop_try(received) == received

\* run with the errors of close_relay propagated
run_result_close_error(run_loop_result, log) ==
    IF \E i \in 1..Len(log) : log[i][1] \in {"quit", "flush", "shutdown"} /\ ~log[i][2]
    THEN Err(Io("BrokenPipe"))
    ELSE run_loop_result

\* run returning Ok(()) once run_loop has ended with an end of stream
run_result_eof_is_ok(run_loop_result, log) ==
    IF run_loop_result = Err(Io("UnexpectedEof")) THEN Ok(Unit) ELSE run_loop_result

\* Relay::run: the value returned once close_relay is over
run_result(run_loop_result, log) == run_loop_result

\* ------------------------------------------------------------------- state
VARIABLES
    pc,        \* the statement of run() to execute next
    stream,    \* "none", "open" (connected), "dropped"
    log,       \* writes, flush and shutdown attempted on the stream: <<op, ok>>
    reads,     \* number of recv_msg calls made
    wire,      \* what the stream returned to the recv_msg under way
    probe,     \* result of the recv_msg of init_relay
    msg,       \* result of the last recv_msg of the loop
    played,    \* notifications triggered by the dispatch of msg
    result,    \* result of run_loop
    returned,  \* value returned by run()
    bytes,     \* the slice handed to a decoder of the codec
    called,    \* the decoder applied to bytes, "none" before the call
    parsed     \* what the decoder returned

session == <<pc, stream, log, reads, wire, probe, msg, played, result, returned>>
codec   == <<bytes, called, parsed>>
vars    == <<session, overflow_checks, codec>>

Init ==
    /\ pc = "connect_relay"
    /\ stream = "none"
    /\ log = <<>>
    /\ reads = 0
    /\ wire = NoRead
    /\ probe = Pending
    /\ msg = Pending
    /\ played = 0
    /\ result = Pending
    /\ returned = Pending
    /\ overflow_checks \in BOOLEAN
    /\ bytes = <<>>
    /\ called = "none"
    /\ parsed = Pending

\* run without the try! on connect_relay
Connect_no_try ==
    /\ pc = "connect_relay"
    /\ \E ok \in BOOLEAN :
         LET r == connect_relay(ok)
         IN  /\ stream' = IF r.st = "Ok" THEN "open" ELSE stream
             /\ pc' = "send_init"
    /\ UNCHANGED <<log, reads, wire, probe, msg, played, result, returned>>
    /\ UNCHANGED <<overflow_checks, codec>>

\* run: connect_relay, with try!
Connect ==
    /\ pc = "connect_relay"
    /\ \E ok \in BOOLEAN :
         LET r == connect_relay(ok)
         IN  IF r.st = "Ok"
             THEN /\ stream' = "open"
                  /\ pc' = "send_init"
                  /\ UNCHANGED returned
             ELSE /\ returned' = r
                  /\ pc' = "done"
                  /\ UNCHANGED stream
    /\ UNCHANGED <<log, reads, wire, probe, msg, played, result>>
    /\ UNCHANGED <<overflow_checks, codec>>

\* init_relay: send the init command, with try!
SendInit ==
    /\ pc = "send_init"
    /\ \E ok \in BOOLEAN :
         LET r == send_cmd(ok)
         IN  /\ log' = Append(log, <<"init", ok>>)
             /\ IF r.st = "Ok"
                THEN pc' = "send_ping" /\ UNCHANGED result
                ELSE pc' = "quit" /\ result' = r
    /\ UNCHANGED <<stream, reads, wire, probe, msg, played, returned>>
    /\ UNCHANGED <<overflow_checks, codec>>

\* init_relay sending the sync command along with init and ping, before the
\* reply is read
SendPing_pipelined ==
    /\ pc = "send_ping"
    /\ \E ok \in BOOLEAN : log' = Append(log, <<"ping", ok>>)
    /\ pc' = "send_sync"
    /\ UNCHANGED <<stream, reads, wire, probe, msg, played, result, returned>>
    /\ UNCHANGED <<overflow_checks, codec>>

\* init_relay with try! on the ping as on the init command
SendPing_try ==
    /\ pc = "send_ping"
    /\ \E ok \in BOOLEAN :
         LET r == send_cmd(ok)
         IN  /\ log' = Append(log, <<"ping", ok>>)
             /\ IF r.st = "Ok"
                THEN pc' = "probe" /\ UNCHANGED result
                ELSE pc' = "quit" /\ result' = r
    /\ UNCHANGED <<stream, reads, wire, probe, msg, played, returned>>
    /\ UNCHANGED <<overflow_checks, codec>>

\* init_relay: send the ping, result discarded
SendPing ==
    /\ pc = "send_ping"
    /\ \E ok \in BOOLEAN : log' = Append(log, <<"ping", ok>>)
    /\ pc' = "probe"
    /\ UNCHANGED <<stream, reads, wire, probe, msg, played, result, returned>>
    /\ UNCHANGED <<overflow_checks, codec>>

\* init_relay: read the reply and match on it; run_loop: try! on init_relay
Probe ==
    /\ pc = "probe"
    /\ \E read \in ReadOutcomes :
         LET reply == recv_msg(read)
             r     == init_relay_match(reply)
         IN  /\ wire' = read
             /\ probe' = reply
             /\ CASE r.st = "Ok"    -> pc' = "send_sync" /\ UNCHANGED <<result, stream>>
                  [] r.st = "Err"   -> pc' = "quit" /\ result' = r /\ UNCHANGED stream
                  [] r.st = "Panic" -> pc' = "panicked" /\ stream' = "dropped"
                                       /\ UNCHANGED result
    /\ reads' = reads + 1
    /\ UNCHANGED <<log, msg, played, returned>>
    /\ UNCHANGED <<overflow_checks, codec>>

\* run_loop: send the sync command, with try!
SendSync ==
    /\ pc = "send_sync"
    /\ \E ok \in BOOLEAN :
         LET r == send_cmd(ok)
         IN  /\ log' = Append(log, <<"sync", ok>>)
             /\ IF r.st = "Ok"
                THEN pc' = "recv" /\ UNCHANGED result
                ELSE pc' = "quit" /\ result' = r
    /\ UNCHANGED <<stream, reads, wire, probe, msg, played, returned>>
    /\ UNCHANGED <<overflow_checks, codec>>

\* run_loop: recv_msg of one iteration, with try!
Recv ==
    /\ pc = "recv"
    /\ reads < MaxReads
    /\ \E read \in ReadOutcomes :
         LET received == recv_msg(read)
             r        == run_loop_try(received)
         IN  /\ wire' = read
             /\ msg' = received
             /\ CASE r.st = "Ok"    -> pc' = "dispatch" /\ UNCHANGED <<result, stream>>
                  [] r.st = "Err"   -> pc' = "quit" /\ result' = r /\ UNCHANGED stream
                  [] r.st = "Panic" -> pc' = "panicked" /\ stream' = "dropped"
                                       /\ UNCHANGED result
    /\ reads' = reads + 1
    /\ UNCHANGED <<log, probe, played, returned>>
    /\ UNCHANGED <<overflow_checks, codec>>

\* run_loop: the match on the identifier and the handler it calls
Dispatch ==
    /\ pc = "dispatch"
    /\ LET r == run_loop_match(msg.val)
       IN  IF r.st = "Ok"
           THEN pc' = "loop_end" /\ played' = r.val /\ UNCHANGED stream
           ELSE pc' = "panicked" /\ stream' = "dropped" /\ UNCHANGED played
    /\ UNCHANGED <<log, reads, wire, probe, msg, result, returned>>
    /\ UNCHANGED <<overflow_checks, codec>>

\* run_loop: end of one iteration; the message is dropped
LoopEnd ==
    /\ pc = "loop_end"
    /\ pc' = "recv"
    /\ wire' = NoRead
    /\ msg' = Pending
    /\ played' = 0
    /\ UNCHANGED <<stream, log, reads, probe, result, returned>>
    /\ UNCHANGED <<overflow_checks, codec>>

\* close_relay: send quit, result discarded
CloseQuit ==
    /\ pc = "quit"
    /\ \E ok \in BOOLEAN : log' = Append(log, <<"quit", ok>>)
    /\ pc' = "flush"
    /\ UNCHANGED <<stream, reads, wire, probe, msg, played, result, returned>>
    /\ UNCHANGED <<overflow_checks, codec>>

\* close_relay: flush, result discarded
CloseFlush ==
    /\ pc = "flush"
    /\ \E ok \in BOOLEAN : log' = Append(log, <<"flush", ok>>)
    /\ pc' = "shutdown"
    /\ UNCHANGED <<stream, reads, wire, probe, msg, played, result, returned>>
    /\ UNCHANGED <<overflow_checks, codec>>

\* close_relay: shutdown(Shutdown::Both), result discarded
CloseShutdown ==
    /\ pc = "shutdown"
    /\ \E ok \in BOOLEAN : log' = Append(log, <<"shutdown", ok>>)
    /\ pc' = "return"
    /\ UNCHANGED <<stream, reads, wire, probe, msg, played, result, returned>>
    /\ UNCHANGED <<overflow_checks, codec>>

\* run: return the result of run_loop
Return ==
    /\ pc = "return"
    /\ returned' = run_result(result, log)
    /\ stream' = "dropped"
    /\ pc' = "done"
    /\ UNCHANGED <<log, reads, wire, probe, msg, played, result>>
    /\ UNCHANGED <<overflow_checks, codec>>

Next ==
    \/ Connect
    \/ SendInit
    \/ SendPing
    \/ Probe
    \/ SendSync
    \/ Recv
    \/ Dispatch
    \/ LoopEnd
    \/ CloseQuit
    \/ CloseFlush
    \/ CloseShutdown
    \/ Return

Spec == Init /\ [][Next]_vars

\* ------------------------------------------------------------ object codec
\* A byte is a number of 0..255 and a slice &[u8] a sequence of bytes; a
\* String holds the bytes of its UTF-8 text.

\* enum WeechatError (errors.rs)
ParseError(s) == [tag |-> "ParseError", kind |-> s]

\* enum DataType (message_data.rs): the variants the session does not look at
DataType_Buf(b) == <<"Buf", b>>
DataType_Lon(l) == <<"Lon", l>>
DataType_Tim(t) == <<"Tim", t>>

\* enum Object (message.rs)
Object_Arr(a) == <<"Arr", a>>
Object_Buf(b) == <<"Buf", b>>
Object_Chr(c) == <<"Chr", c>>
Object_Htb(m) == <<"Htb", m>>
Object_Int(i) == <<"Int", i>>
Object_Lon(l) == <<"Lon", l>>
Object_Ptr(p) == <<"Ptr", p>>
Object_Str(s) == <<"Str", s>>
Object_Tim(t) == <<"Tim", t>>

\* struct Parse (parse.rs) and struct ExtractedData (message_data.rs)
Parse(object, bytes_read)        == [object |-> object, bytes_read |-> bytes_read]
ExtractedData(value, bytes_read) == [value |-> value, bytes_read |-> bytes_read]

\* i32::MAX.  A usize above it is kept as Large: such a value is only ever
\* compared with the length of a slice, which is smaller.
Large == 2147483647

\* `b as i8`
as_i8(b) == IF b >= 128 THEN b - 256 ELSE b

\* `a + (n as usize)` for a small a and a signed n: a negative n is cast to
\* 2^64 + n (2^32 + n on a 32-bit target), and the sum overflows usize exactly
\* when a + n >= 0
usize_overflows(a, n) == n < 0 /\ a + n >= 0
usize_add(a, n) ==
    IF n >= 0 THEN (IF n > Large - a THEN Large ELSE a + n)
    ELSE IF a + n >= 0 THEN a + n
    ELSE Large

\* &bytes[start..end] panics unless start <= end <= bytes.len()
in_bounds(slice, start, end) == start <= end /\ end <= Len(slice)
index(slice, start, end)     == SubSeq(slice, start + 1, end)

continuation(b) == b \in 128..191

\* std::str::from_utf8: the well-formed byte sequences of UTF-8, from byte
\* i (counted from 1) of v on
RECURSIVE well_formed_utf8(_, _)
well_formed_utf8(v, i) ==
    LET n == Len(v) - i + 1
        b == v[i]
    IN  IF n <= 0 THEN TRUE
        ELSE IF b <= 127 THEN well_formed_utf8(v, i + 1)
        ELSE IF b \in 194..223
             THEN n >= 2 /\ continuation(v[i + 1]) /\ well_formed_utf8(v, i + 2)
        ELSE IF b \in 224..239
             THEN /\ n >= 3
                  /\ CASE b = 224 -> v[i + 1] \in 160..191
                       [] b = 237 -> v[i + 1] \in 128..159
                       [] OTHER   -> continuation(v[i + 1])
                  /\ continuation(v[i + 2])
                  /\ well_formed_utf8(v, i + 3)
        ELSE IF b \in 240..244
             THEN /\ n >= 4
                  /\ CASE b = 240 -> v[i + 1] \in 144..191
                       [] b = 244 -> v[i + 1] \in 128..143
                       [] OTHER   -> continuation(v[i + 1])
                  /\ continuation(v[i + 2]) /\ continuation(v[i + 3])
                  /\ well_formed_utf8(v, i + 4)
        ELSE FALSE

\* try!(from_utf8(v)), with From<Utf8Error> for WeechatError (errors.rs)
from_utf8(v) ==
    IF well_formed_utf8(v, 1) THEN Ok(v) ELSE Err(ParseError("Parsed invalid utf8 string"))

\* transmute::<[u8; 4], i32> on a little-endian target, the only kind the
\* byte swap of bytes_to_i32 is written for: b[1] is the low byte and the
\* top bit of b[4] the sign
transmute(b) == b[1] + 256 * b[2] + 65536 * b[3] + 16777216 * as_i8(b[4])

\* bytes_to_i32 (conversions.rs)
conversions_bytes_to_i32(byte_array) ==
    IF Len(byte_array) # 4 THEN Err(ParseError("Cannot cast bytes to i32"))
    ELSE Ok(transmute(<<byte_array[4], byte_array[3], byte_array[2], byte_array[1]>>))

\* bytes_to_i32 written as a plain widening of the unsigned big-endian value
bytes_to_i32_unsigned(byte_array) ==
    IF Len(byte_array) # 4 THEN Err(ParseError("Cannot cast bytes to i32"))
    ELSE Ok(byte_array[4] + 256 * byte_array[3] + 65536 * byte_array[2]
              + 16777216 * (byte_array[1] % 128))

\* bytes_to_i32 (parse.rs)
bytes_to_i32(byte_array) ==
    IF Len(byte_array) # 4 THEN Err(ParseError("Cannot cast bytes to i32"))
    ELSE Ok(transmute(<<byte_array[4], byte_array[3], byte_array[2], byte_array[1]>>))

\* ------------------------------------------------------- parse.rs: Parse::*
\* Parse::character
Parse_character(slice) ==
    IF Len(slice) < 1 THEN Err(ParseError("Not enough bytes to parse character"))
    ELSE Ok(Parse(Object_Chr(slice[1]), 1))

\* Parse::integer
Parse_integer(slice) ==
    IF Len(slice) < 4 THEN Err(ParseError("Not enough bytes to parse int"))
    ELSE Ok(Parse(Object_Int(bytes_to_i32(index(slice, 0, 4)).val), 4))

\* Vec::new() followed by clone_from_slice(src): the two lengths must be
\* equal
clone_from_slice(src) == IF Len(src) # 0 THEN Panic ELSE Ok(<<>>)

\* Parse::buffer
Parse_buffer(slice) ==
    IF Len(slice) < 4 THEN Err(ParseError("Not enough bytes to parse buffer"))
    ELSE LET buf_size == bytes_to_i32(index(slice, 0, 4)).val
             end      == usize_add(4, buf_size)
         IN  IF overflow_checks /\ usize_overflows(4, buf_size) THEN Panic
             ELSE IF Len(slice) >= end
                  THEN Err(ParseError("Buffer larger then availiable bytes"))
             ELSE CASE buf_size = -1 -> Ok(Parse(Object_Buf(None), end))
                    [] buf_size = 0  -> Ok(Parse(Object_Buf(Some(<<>>)), end))
                    [] OTHER ->
                         IF ~in_bounds(slice, 4, end) THEN Panic
                         ELSE LET buf == clone_from_slice(index(slice, 4, end))
                              IN  IF buf.st = "Panic" THEN Panic
                                  ELSE Ok(Parse(Object_Buf(Some(buf.val)), end))

\* Parse::pointer with every payload made Some(payload), "0" included
Parse_pointer_never_null(slice) ==
    IF Len(slice) < 2 THEN Err(ParseError("Not enough bytes to parse pointer"))
    ELSE LET ptr_size == as_i8(slice[1])
             end      == usize_add(1, ptr_size)
         IN  IF overflow_checks /\ usize_overflows(1, ptr_size) THEN Panic
             ELSE IF Len(slice) < end
                  THEN Err(ParseError("Pointer larger then availiable bytes"))
             ELSE IF ~in_bounds(slice, 1, end) THEN Panic
             ELSE LET ptr == from_utf8(index(slice, 1, end))
                  IN  IF ptr.st = "Err" THEN ptr
                      ELSE Ok(Parse(Object_Ptr(Some(ptr.val)), end))

\* Parse::pointer
Parse_pointer(slice) ==
    IF Len(slice) < 2 THEN Err(ParseError("Not enough bytes to parse pointer"))
    ELSE LET ptr_size == as_i8(slice[1])
             end      == usize_add(1, ptr_size)
         IN  IF overflow_checks /\ usize_overflows(1, ptr_size) THEN Panic
             ELSE IF Len(slice) < end
                  THEN Err(ParseError("Pointer larger then availiable bytes"))
             ELSE IF ~in_bounds(slice, 1, end) THEN Panic
             ELSE LET ptr == from_utf8(index(slice, 1, end))
                  IN  IF ptr.st = "Err" THEN ptr
                      ELSE IF Len(ptr.val) = 1 /\ ptr.val = <<48>>
                           THEN Ok(Parse(Object_Ptr(None), end))
                      ELSE Ok(Parse(Object_Ptr(Some(ptr.val)), end))

\* Parse::string reporting every byte of the slice as read
Parse_string_reads_all(slice) ==
    IF Len(slice) < 4 THEN Err(ParseError("Not enough bytes to parse string"))
    ELSE LET str_size == bytes_to_i32(index(slice, 0, 4)).val
             end      == usize_add(4, str_size)
         IN  IF overflow_checks /\ usize_overflows(4, str_size) THEN Panic
             ELSE IF Len(slice) < end
                  THEN Err(ParseError("String larger then availiable bytes"))
             ELSE CASE str_size = -1 -> Ok(Parse(Object_Str(None), Len(slice)))
                    [] str_size = 0  -> Ok(Parse(Object_Str(Some(<<>>)), Len(slice)))
                    [] OTHER ->
                         IF ~in_bounds(slice, 4, end) THEN Panic
                         ELSE LET text == from_utf8(index(slice, 4, end))
                              IN  IF text.st = "Err" THEN text
                                  ELSE Ok(Parse(Object_Str(Some(text.val)), Len(slice)))

\* Parse::string
Parse_string(slice) ==
    IF Len(slice) < 4 THEN Err(ParseError("Not enough bytes to parse string"))
    ELSE LET str_size == bytes_to_i32(index(slice, 0, 4)).val
             end      == usize_add(4, str_size)
         IN  IF overflow_checks /\ usize_overflows(4, str_size) THEN Panic
             ELSE IF Len(slice) < end
                  THEN Err(ParseError("String larger then availiable bytes"))
             ELSE CASE str_size = -1 -> Ok(Parse(Object_Str(None), end))
                    [] str_size = 0  -> Ok(Parse(Object_Str(Some(<<>>)), end))
                    [] OTHER ->
                         IF ~in_bounds(slice, 4, end) THEN Panic
                         ELSE LET text == from_utf8(index(slice, 4, end))
                              IN  IF text.st = "Err" THEN text
                                  ELSE Ok(Parse(Object_Str(Some(text.val)), end))

\* ------------------------------------------------------ message.rs: Header
\* Header::new.  The subtraction total_msg_length as usize - cur_pos is
\* below zero for a total below 5: a panic with overflow checks, a wrapped
\* length above isize::MAX without them.  A negative total is cast to a
\* usize above i32::MAX.
Header_new(slice) ==
    LET parsed_length == Parse_integer(slice)
    IN  IF parsed_length.st = "Err" THEN parsed_length
        ELSE LET total_msg_length == parsed_length.val.object[2]
                 cur_pos          == parsed_length.val.bytes_read
                 parsed_char      == Parse_character(index(slice, cur_pos, Len(slice)))
             IN  IF parsed_char.st = "Err" THEN parsed_char
                 ELSE IF parsed_char.val.object[2] \notin {0, 1}
                      THEN Err(ParseError("Bad compression byte"))
                 ELSE LET compression == (parsed_char.val.object[2] = 1)
                          cur_pos_2 == cur_pos + parsed_char.val.bytes_read
                      IN  IF total_msg_length < 0
                          THEN Ok([length |-> Large, compression |-> compression])
                          ELSE IF total_msg_length < cur_pos_2
                               THEN IF overflow_checks THEN Panic
                                    ELSE Ok([length |-> Large, compression |-> compression])
                          ELSE Ok([length |-> total_msg_length - cur_pos_2,
                                   compression |-> compression])

\* --------------------------------------------- message_data.rs: extract_*
\* the type codes, as UTF-8 text
type_chr == <<99, 104, 114>>
type_int == <<105, 110, 116>>
type_lon == <<108, 111, 110>>
type_str == <<115, 116, 114>>
type_buf == <<98, 117, 102>>
type_ptr == <<112, 116, 114>>
type_tim == <<116, 105, 109>>
type_arr == <<97, 114, 114>>

\* extract_string
extract_string(data) ==
    IF Len(data) < 4 THEN Err(ParseError("Not enough bytes to parse string"))
    ELSE LET str_size == conversions_bytes_to_i32(index(data, 0, 4)).val
             end      == usize_add(4, str_size)
         IN  IF overflow_checks /\ usize_overflows(4, str_size) THEN Panic
             ELSE IF Len(data) < end
                  THEN Err(ParseError("String larger then availiable bytes"))
             ELSE CASE str_size = -1 -> Ok(ExtractedData(DataType_Str(None), end))
                    [] str_size = 0  -> Ok(ExtractedData(DataType_Str(Some(<<>>)), end))
                    [] OTHER ->
                         IF ~in_bounds(data, 4, end) THEN Panic
                         ELSE LET text == from_utf8(index(data, 4, end))
                              IN  IF text.st = "Err" THEN text
                                  ELSE Ok(ExtractedData(DataType_Str(Some(text.val)), end))

\* extract_pointer
extract_pointer(data) ==
    IF Len(data) < 2 THEN Err(ParseError("Not enough bytes to parse pointer"))
    ELSE LET ptr_size == as_i8(data[1])
             end      == usize_add(1, ptr_size)
         IN  IF overflow_checks /\ usize_overflows(1, ptr_size) THEN Panic
             ELSE IF Len(data) < end
                  THEN Err(ParseError("Pointer larger then availiable bytes"))
             ELSE IF ~in_bounds(data, 1, end) THEN Panic
             ELSE LET ptr == from_utf8(index(data, 1, end))
                  IN  IF ptr.st = "Err" THEN ptr
                      ELSE IF Len(ptr.val) = 1 /\ ptr.val = <<48>>
                           THEN Ok(ExtractedData(DataType_Ptr(None), end))
                      ELSE Ok(ExtractedData(DataType_Ptr(Some(ptr.val)), end))

\* extract_char
extract_char(data) ==
    IF Len(data) < 1 THEN Err(ParseError("Not enough bytes to parse char"))
    ELSE Ok(ExtractedData(DataType_Chr(data[1]), 1))

\* extract_int
extract_int(data) ==
    IF Len(data) < 4 THEN Err(ParseError("Not enough bytes to parse int"))
    ELSE Ok(ExtractedData(DataType_Int(conversions_bytes_to_i32(index(data, 0, 4)).val), 4))

\* str::parse of a decimal integer: an optional sign, then one digit or more;
\* from digit i of text on, with the value acc of the digits before it.  A
\* value outside -Large - 1 .. Large is an error: that is the range of the
\* i32 of extract_time, and of the i64 of extract_long for a text of less
\* than 10 digits.
RECURSIVE parse_digits(_, _, _, _)
parse_digits(text, i, negative, acc) ==
    IF i > Len(text) THEN Ok(acc)
    ELSE IF text[i] \notin 48..57 THEN Err(ParseError("String to i32 conversion failed"))
    ELSE LET d == text[i] - 48
         IN  IF negative
             THEN IF acc < (-Large - 1 + d) \div 10 + (IF (-Large - 1 + d) % 10 = 0 THEN 0 ELSE 1)
                  THEN Err(ParseError("String to i32 conversion failed"))
                  ELSE parse_digits(text, i + 1, negative, acc * 10 - d)
             ELSE IF acc > (Large - d) \div 10
                  THEN Err(ParseError("String to i32 conversion failed"))
                  ELSE parse_digits(text, i + 1, negative, acc * 10 + d)

parse(text) ==
    IF text = <<>> THEN Err(ParseError("String to i32 conversion failed"))
    ELSE IF text[1] \in {43, 45}
         THEN IF Len(text) = 1 THEN Err(ParseError("String to i32 conversion failed"))
              ELSE parse_digits(text, 2, text[1] = 45, 0)
    ELSE parse_digits(text, 1, FALSE, 0)

\* extract_long
extract_long(data) ==
    IF Len(data) < 2 THEN Err(ParseError("Not enough bytes to parse long"))
    ELSE LET long_size == as_i8(data[1])
             end       == usize_add(1, long_size)
         IN  IF overflow_checks /\ usize_overflows(1, long_size) THEN Panic
             ELSE IF Len(data) < end
                  THEN Err(ParseError("Long larger then available bytes"))
             ELSE IF ~in_bounds(data, 1, end) THEN Panic
             ELSE LET long_str == from_utf8(index(data, 1, end))
                  IN  IF long_str.st = "Err" THEN long_str
                      ELSE IF parse(long_str.val).st = "Err"
                           THEN Err(ParseError("String to long conversion failed"))
                      ELSE Ok(ExtractedData(DataType_Lon(parse(long_str.val).val), end))

\* extract_buffer
extract_buffer(data) ==
    IF Len(data) < 4 THEN Err(ParseError("Not enough bytes to parse buffer"))
    ELSE LET buf_size == conversions_bytes_to_i32(index(data, 0, 4)).val
             end      == usize_add(4, buf_size)
         IN  IF overflow_checks /\ usize_overflows(4, buf_size) THEN Panic
             ELSE IF Len(data) >= end
                  THEN Err(ParseError("Buffer larger then availiable bytes"))
             ELSE CASE buf_size = -1 -> Ok(ExtractedData(DataType_Buf(None), end))
                    [] buf_size = 0  -> Ok(ExtractedData(DataType_Buf(Some(<<>>)), end))
                    [] OTHER ->
                         IF ~in_bounds(data, 4, end) THEN Panic
                         ELSE LET buf == clone_from_slice(index(data, 4, end))
                              IN  IF buf.st = "Panic" THEN Panic
                                  ELSE Ok(ExtractedData(DataType_Buf(Some(buf.val)), end))

\* extract_time
extract_time(data) ==
    IF Len(data) < 2 THEN Err(ParseError("Not enough bytes parse time"))
    ELSE LET time_size == as_i8(data[1])
             end       == usize_add(1, time_size)
         IN  IF overflow_checks /\ usize_overflows(1, time_size) THEN Panic
             ELSE IF Len(data) < end
                  THEN Err(ParseError("Not enough bytes to extract time"))
             ELSE IF ~in_bounds(data, 1, end) THEN Panic
             ELSE LET time_str == from_utf8(index(data, 1, end))
                  IN  IF time_str.st = "Err" THEN time_str
                      ELSE IF parse(time_str.val).st = "Err"
                           THEN Err(ParseError("String to i32 conversion failed"))
                      ELSE Ok(ExtractedData(DataType_Tim(parse(time_str.val).val), end))

\* `cur_pos += bytes_read`
advance(cur_pos, bytes_read) ==
    IF bytes_read > Large - cur_pos THEN Large ELSE cur_pos + bytes_read

RECURSIVE extract_array(_)
RECURSIVE extract_array_loop(_, _, _, _, _)

\* the match on a type code of extract_array and of HData::new, on
\* &data[cur_pos..]; Pending stands for the arm `_`
extract_type(type, data, cur_pos) ==
    IF cur_pos > Len(data) THEN Panic
    ELSE LET rest == index(data, cur_pos, Len(data))
         IN  CASE type = type_chr -> extract_char(rest)
               [] type = type_int -> extract_int(rest)
               [] type = type_lon -> extract_long(rest)
               [] type = type_str -> extract_string(rest)
               [] type = type_buf -> extract_buffer(rest)
               [] type = type_ptr -> extract_pointer(rest)
               [] type = type_tim -> extract_time(rest)
               [] type = type_arr -> extract_array(rest)
               [] OTHER -> Pending

\* extract_array: the loop `for _ in 0..num_elements`, with `remaining`
\* iterations to go
extract_array_loop(data, arr_type, remaining, cur_pos, array) ==
    IF remaining <= 0 THEN Ok(ExtractedData(DataType_Arr(array), cur_pos))
    ELSE LET extracted == extract_type(arr_type, data, cur_pos)
         IN  CASE extracted.st = "Pending" -> Err(ParseError("Bad type for array"))
               [] extracted.st \in {"Err", "Panic"} -> extracted
               [] OTHER ->
                    extract_array_loop(data, arr_type, remaining - 1,
                                       advance(cur_pos, extracted.val.bytes_read),
                                       Append(array, extracted.val.value))

\* extract_array
extract_array(data) ==
    IF Len(data) < 7 THEN Err(ParseError("Not enough bytes to have an array"))
    ELSE LET arr_type == from_utf8(index(data, 0, 3))
             num_elements == conversions_bytes_to_i32(index(data, 3, 7)).val
         IN  IF arr_type.st = "Err" THEN arr_type
             ELSE extract_array_loop(data, arr_type.val, num_elements, 7, <<>>)

\* -------------------------------------------------------- hdata.rs: HData
\* str::split(sep): the pieces of text between the separators, one piece
\* more than there are separators
RECURSIVE split(_, _)
split(text, sep) ==
    IF \A i \in 1..Len(text) : text[i] # sep THEN <<text>>
    ELSE LET at == CHOOSE i \in 1..Len(text) :
                       text[i] = sep /\ \A j \in 1..(i - 1) : text[j] # sep
         IN  <<SubSeq(text, 1, at - 1)>> \o split(SubSeq(text, at + 1, Len(text)), sep)

\* HashMap::insert: the value inserted last for a key is the one kept
insert(key_value_map, key, value) == (key :> value) @@ key_value_map

\* struct HData (hdata.rs)
hdata_HData(data_list) == [data |-> data_list]

\* HData::new: the loop `for path_name in &paths`, from path i on
RECURSIVE hdata_paths(_, _, _, _, _)
hdata_paths(data, paths, i, cur_pos, key_value_map) ==
    IF i > Len(paths) THEN Ok([cur_pos |-> cur_pos, key_value_map |-> key_value_map])
    ELSE IF cur_pos > Len(data) THEN Panic
    ELSE LET extracted == extract_pointer(index(data, cur_pos, Len(data)))
         IN  IF extracted.st # "Ok" THEN extracted
             ELSE hdata_paths(data, paths, i + 1,
                              advance(cur_pos, extracted.val.bytes_read),
                              insert(key_value_map, paths[i], extracted.val.value))

\* HData::new: the loop `for key in &keys`, from key i on
RECURSIVE hdata_keys(_, _, _, _, _)
hdata_keys(data, keys, i, cur_pos, key_value_map) ==
    IF i > Len(keys) THEN Ok([cur_pos |-> cur_pos, key_value_map |-> key_value_map])
    ELSE LET key_parse == split(keys[i], 58)
         IN  IF Len(key_parse) < 2 THEN Panic
             ELSE LET key_name  == key_parse[1]
                      key_type  == key_parse[2]
                      extracted == extract_type(key_type, data, cur_pos)
                  IN  CASE extracted.st = "Pending" -> Err(ParseError("Bad type for key"))
                        [] extracted.st \in {"Err", "Panic"} -> extracted
                        [] OTHER ->
                             hdata_keys(data, keys, i + 1,
                                        advance(cur_pos, extracted.val.bytes_read),
                                        insert(key_value_map, key_name, extracted.val.value))

\* HData::new: the loop `for _ in 0..num_hdata_items`, with `remaining`
\* iterations to go
RECURSIVE hdata_items(_, _, _, _, _, _)
hdata_items(data, paths, keys, remaining, cur_pos, data_list) ==
    IF remaining <= 0 THEN Ok(hdata_HData(data_list))
    ELSE LET with_paths == hdata_paths(data, paths, 1, cur_pos, <<>>)
         IN  IF with_paths.st # "Ok" THEN with_paths
             ELSE LET with_keys == hdata_keys(data, keys, 1, with_paths.val.cur_pos,
                                              with_paths.val.key_value_map)
                  IN  IF with_keys.st # "Ok" THEN with_keys
                      ELSE hdata_items(data, paths, keys, remaining - 1,
                                       with_keys.val.cur_pos,
                                       Append(data_list, with_keys.val.key_value_map))

\* HData::new
HData_new(data) ==
    LET extracted_paths == extract_string(data)
    IN  IF extracted_paths.st # "Ok" THEN extracted_paths
        ELSE IF extracted_paths.val.value[2] = None
             THEN Err(ParseError("Invalid Path type"))
        ELSE LET paths    == split(extracted_paths.val.value[2][2], 44)
                 cur_pos  == extracted_paths.val.bytes_read
                 extracted_keys == extract_string(index(data, cur_pos, Len(data)))
             IN  IF extracted_keys.st # "Ok" THEN extracted_keys
                 ELSE IF extracted_keys.val.value[2] = None
                      THEN Err(ParseError("Invalid key type"))
                 ELSE LET keys      == split(extracted_keys.val.value[2][2], 44)
                          cur_pos_2 == advance(cur_pos, extracted_keys.val.bytes_read)
                      IN  IF ~in_bounds(data, cur_pos_2, advance(cur_pos_2, 4)) THEN Panic
                          ELSE LET num_hdata_items ==
                                       conversions_bytes_to_i32(
                                           index(data, cur_pos_2, cur_pos_2 + 4)).val
                               IN  hdata_items(data, paths, keys, num_hdata_items,
                                               cur_pos_2 + 4, <<>>)

\* ------------------------------------------- parse.rs: long, time, containers
\* Parse::long.  The text is parsed as an i64; `parse` is exact for the texts
\* of less than 10 digits.
Parse_long(slice) ==
    IF Len(slice) < 2 THEN Err(ParseError("Not enough bytes to parse long"))
    ELSE LET long_size == as_i8(slice[1])
             end       == usize_add(1, long_size)
         IN  IF overflow_checks /\ usize_overflows(1, long_size) THEN Panic
             ELSE IF Len(slice) < end
                  THEN Err(ParseError("Long larger then available bytes"))
             ELSE IF ~in_bounds(slice, 1, end) THEN Panic
             ELSE LET long_str == from_utf8(index(slice, 1, end))
                  IN  IF long_str.st = "Err" THEN long_str
                      ELSE IF parse(long_str.val).st = "Err"
                           THEN Err(ParseError("String to long conversion failed"))
                      ELSE Ok(Parse(Object_Lon(parse(long_str.val).val), end))

\* Parse::time
Parse_time(slice) ==
    IF Len(slice) < 2 THEN Err(ParseError("Not enough bytes parse time"))
    ELSE LET time_size == as_i8(slice[1])
             end       == usize_add(1, time_size)
         IN  IF overflow_checks /\ usize_overflows(1, time_size) THEN Panic
             ELSE IF Len(slice) < end
                  THEN Err(ParseError("Not enough bytes to parse time"))
             ELSE IF ~in_bounds(slice, 1, end) THEN Panic
             ELSE LET time_str == from_utf8(index(slice, 1, end))
                  IN  IF time_str.st = "Err" THEN time_str
                      ELSE IF parse(time_str.val).st = "Err"
                           THEN Err(ParseError("String to i32 conversion failed"))
                      ELSE Ok(Parse(Object_Tim(parse(time_str.val).val), end))

type_htb == <<104, 116, 98>>

\* try!(r): the value of an Ok, handed on to what follows; an error (or a
\* panic) ends the function with it
try(r, Then(_)) == IF r.st # "Ok" THEN r ELSE Then(r.val)

RECURSIVE Parse_parse_type(_, _)
RECURSIVE Parse_array_loop(_, _, _, _, _)
RECURSIVE Parse_hashtable_loop(_, _, _, _, _, _)

\* one pass of the loop of Parse::array leaving one byte out after the
\* element
Parse_array_pass_skips(slice, arr_type, cur_pos, array) ==
    IF cur_pos > Len(slice) THEN Panic
    ELSE try(Parse_parse_type(arr_type, index(slice, cur_pos, Len(slice))),
             LAMBDA parsed_element :
                 Ok([cur_pos |-> advance(cur_pos, parsed_element.bytes_read) + 1,
                     array   |-> Append(array, parsed_element.object)]))

\* Parse::array: one pass of the loop `for _ in 0..num_elements`
Parse_array_pass(slice, arr_type, cur_pos, array) ==
    IF cur_pos > Len(slice) THEN Panic
    ELSE try(Parse_parse_type(arr_type, index(slice, cur_pos, Len(slice))),
             LAMBDA parsed_element :
                 Ok([cur_pos |-> advance(cur_pos, parsed_element.bytes_read),
                     array   |-> Append(array, parsed_element.object)]))

\* Parse::array: the loop, with `remaining` passes to go
Parse_array_loop(slice, arr_type, remaining, cur_pos, array) ==
    IF remaining <= 0 THEN Ok(Parse(Object_Arr(array), cur_pos))
    ELSE try(Parse_array_pass(slice, arr_type, cur_pos, array),
             LAMBDA pass : Parse_array_loop(slice, arr_type, remaining - 1,
                                            pass.cur_pos, pass.array))

\* Parse::array
Parse_array(slice) ==
    IF Len(slice) < 7 THEN Err(ParseError("Not enough bytes to have an array"))
    ELSE try(from_utf8(index(slice, 0, 3)),
             LAMBDA arr_type :
                 Parse_array_loop(slice, arr_type, bytes_to_i32(index(slice, 3, 7)).val,
                                  7, <<>>))

\* Parse::hashtable: one pass of the loop `for _ in 0..num_entries`
Parse_hashtable_pass(slice, key_type, value_type, cur_pos, map) ==
    IF cur_pos > Len(slice) THEN Panic
    ELSE try(Parse_parse_type(key_type, index(slice, cur_pos, Len(slice))),
             LAMBDA parsed_key :
                 LET cur_pos_2 == advance(cur_pos, parsed_key.bytes_read)
                 IN  IF cur_pos_2 > Len(slice) THEN Panic
                     ELSE try(Parse_parse_type(value_type,
                                               index(slice, cur_pos_2, Len(slice))),
                              LAMBDA parsed_value :
                                  Ok([cur_pos |-> advance(cur_pos_2,
                                                          parsed_value.bytes_read),
                                      map     |-> insert(map, parsed_key.object,
                                                         parsed_value.object)])))

\* Parse::hashtable: the loop, with `remaining` passes to go
Parse_hashtable_loop(slice, key_type, value_type, remaining, cur_pos, map) ==
    IF remaining <= 0 THEN Ok(Parse(Object_Htb(map), cur_pos))
    ELSE try(Parse_hashtable_pass(slice, key_type, value_type, cur_pos, map),
             LAMBDA pass : Parse_hashtable_loop(slice, key_type, value_type,
                                                remaining - 1, pass.cur_pos, pass.map))

\* Parse::hashtable
Parse_hashtable(slice) ==
    IF Len(slice) < 10 THEN Err(ParseError("Not enough bytes to have a hashtable"))
    ELSE try(from_utf8(index(slice, 0, 3)),
             LAMBDA key_type :
                 try(from_utf8(index(slice, 3, 6)),
                     LAMBDA value_type :
                         Parse_hashtable_loop(slice, key_type, value_type,
                                              bytes_to_i32(index(slice, 6, 10)).val,
                                              10, <<>>)))

\* Parse::parse_type
Parse_parse_type(data_type, slice) ==
    CASE data_type = type_chr -> Parse_character(slice)
      [] data_type = type_int -> Parse_integer(slice)
      [] data_type = type_lon -> Parse_long(slice)
      [] data_type = type_str -> Parse_string(slice)
      [] data_type = type_buf -> Parse_buffer(slice)
      [] data_type = type_ptr -> Parse_pointer(slice)
      [] data_type = type_tim -> Parse_time(slice)
      [] data_type = type_arr -> Parse_array(slice)
      [] data_type = type_htb -> Parse_hashtable(slice)
      [] OTHER -> Err(ParseError("Unknown data type"))

\* ---------------------------------------------------- strdata.rs: StrData
\* StrData::new
StrData_new(slice) ==
    try(Parse_string(slice),
        LAMBDA parsed_string :
            IF Len(slice) # parsed_string.bytes_read
            THEN Err(ParseError("Not all bytes in message consumed"))
            ELSE Ok([data |-> parsed_string.object[2]]))

\* ----------------------------------------------------- message.rs: Message
\* enum Type
Type_StrData(s) == <<"StrData", s>>
Type_HData(h)   == <<"HData", h>>

\* the body tags, as UTF-8 text
tag_str == <<115, 116, 114>>
tag_hda == <<104, 100, 97>>

\* Message::new
Message_new(slice) ==
    try(Parse_string(slice),
        LAMBDA parsed_identifier :
            IF parsed_identifier.object[2] = None THEN Err(ParseError("String is null"))
            ELSE LET identifier == parsed_identifier.object[2][2]
                     start      == parsed_identifier.bytes_read
                     end        == start + 3
                 IN  IF ~in_bounds(slice, start, end) THEN Panic
                     ELSE try(from_utf8(index(slice, start, end)),
                              LAMBDA tag :
                                  IF tag = tag_str
                                  THEN try(StrData_new(index(slice, end, Len(slice))),
                                           LAMBDA strdata :
                                               Ok([identifier |-> identifier,
                                                   data_type  |-> Type_StrData(strdata)]))
                                  ELSE IF tag = tag_hda
                                  THEN try(HData_new(index(slice, end, Len(slice))),
                                           LAMBDA hdata :
                                               Ok([identifier |-> identifier,
                                                   data_type  |-> Type_HData(hdata)]))
                                  ELSE Err(ParseError("Unknown message type"))))

\* ------------------------------------------ message_header.rs: MessageHeader
\* MessageHeader::new of message_header.rs: as Header::new, on extract_int
\* and extract_char
message_header_MessageHeader_new(data) ==
    LET extracted_length == extract_int(data)
    IN  IF extracted_length.st = "Err" THEN extracted_length
        ELSE LET total_msg_length == extracted_length.val.value[2]
                 cur_pos          == extracted_length.val.bytes_read
                 extracted_char   == extract_char(index(data, cur_pos, Len(data)))
             IN  IF extracted_char.st = "Err" THEN extracted_char
                 ELSE IF extracted_char.val.value[2] \notin {0, 1}
                      THEN Err(ParseError("Bad compression data"))
                 ELSE LET compression == (extracted_char.val.value[2] = 1)
                          cur_pos_2 == cur_pos + extracted_char.val.bytes_read
                      IN  IF total_msg_length < 0
                          THEN Ok([length |-> Large, compression |-> compression])
                          ELSE IF total_msg_length < cur_pos_2
                               THEN IF overflow_checks THEN Panic
                                    ELSE Ok([length |-> Large, compression |-> compression])
                          ELSE Ok([length |-> total_msg_length - cur_pos_2,
                                   compression |-> compression])

\* ------------------------------------------ what a decoder may be handed
\* the big-endian two's complement encoding of an i32, as the relay writes it
BigEndian(v) ==
    LET w == IF v < 0 THEN v + Large + 1 ELSE v
    IN  <<(w \div 16777216) + (IF v < 0 THEN 128 ELSE 0), (w \div 65536) % 256,
          (w \div 256) % 256, w % 256>>

\* a string or a buffer on the wire: the length, then the bytes; null is the
\* length -1 alone
EncodeString(s) == IF s = None THEN BigEndian(-1) ELSE BigEndian(Len(s[2])) \o s[2]

\* a pointer on the wire: the length byte, then the text; null is the text "0"
EncodePointer(p) == IF p = None THEN <<1, 48>> ELSE <<Len(p[2])>> \o p[2]

\* "0", "a", and the two bytes of U+00E9, each of which alone is not UTF-8
TailBytes == {48, 97, 195, 169}
Tails     == UNION { [1..n -> TailBytes] : n \in 0..MaxTail }

\* the UTF-8 texts among the tails
Char0  == <<48>>
CharA  == <<97>>
CharE9 == <<195, 169>>
RECURSIVE TextsUpTo(_)
TextsUpTo(n) ==
    IF n = 0 THEN {<<>>}
    ELSE {<<>>} \cup {c \o t : c \in {Char0, CharA, CharE9}, t \in TextsUpTo(n - 1)}
Utf8Texts == {t \in TextsUpTo(MaxTail) : Len(t) <= MaxTail}

\* i32 values: around zero, at the byte boundaries and at both ends
IntValues == (-2..(MaxTail + 1))
               \cup {127, 128, 255, 256, 65535, 65536, 16777215, 16777216, Large,
                     -128, -129, -256, -65536, -16777216, -Large, -Large - 1}

\* a 4-byte length, then a tail: a string or a buffer that is null, empty,
\* whole, cut short or followed by more, with a length below -1 or far above
\* what follows
LengthPrefixes == {BigEndian(n) : n \in (-2..(MaxTail + 1)) \cup {Large, -Large - 1}}
PrefixedInputs == {p \o t : p \in LengthPrefixes, t \in Tails}

\* a 1-byte length, then a tail: a pointer
LengthBytes   == (0..(MaxTail + 1)) \cup {127, 128, 255}
PointerInputs == {<<p>> \o t : p \in LengthBytes, t \in Tails}

\* the 4 bytes of an i32, and slices of 0 to 3 bytes
IntInputs   == {BigEndian(v) : v \in IntValues}
ShortInputs == {SubSeq(BigEndian(v), 1, k) : v \in {-1, 0, 7}, k \in 0..3}

\* the 5 bytes of a header
HeaderTotals == {-1, 0, HEADER_LENGTH - 1, HEADER_LENGTH, HEADER_LENGTH + 1,
                 HEADER_LENGTH + MaxTail, 260, 65541, 16777221, Large}
HeaderInputs == {BigEndian(t) \o <<c>> : t \in HeaderTotals, c \in {0, 1, 2, 255}}

\* an hdata on the wire: the path names joined by commas as one string, the
\* "name:type" key specs joined by commas as one string, the record count,
\* then for every record one pointer for each path and one object for each
\* key.  An object is kept with the value its bytes stand for:
\* <<bytes, value>>.
RECURSIVE Join(_, _)
Join(texts, sep) ==
    IF Len(texts) = 0 THEN <<>>
    ELSE IF Len(texts) = 1 THEN texts[1]
    ELSE texts[1] \o <<sep>> \o Join(Tail(texts), sep)

RECURSIVE Concat(_)
Concat(seqs) == IF seqs = <<>> THEN <<>> ELSE Head(seqs) \o Concat(Tail(seqs))

KeySpec(name, type) == name \o <<58>> \o type

PtrNull  == <<EncodePointer(None), DataType_Ptr(None)>>
Ptr1a    == <<EncodePointer(Some(<<49, 97>>)), DataType_Ptr(Some(<<49, 97>>))>>
Chr0     == <<(<<0>>), DataType_Chr(0)>>
Chr1     == <<(<<1>>), DataType_Chr(1)>>
Int7     == <<BigEndian(7), DataType_Int(7)>>
IntNeg   == <<BigEndian(-1), DataType_Int(-1)>>
StrNull  == <<EncodeString(None), DataType_Str(None)>>
StrEmpty == <<EncodeString(Some(<<>>)), DataType_Str(Some(<<>>))>>
StrA     == <<EncodeString(Some(CharA)), DataType_Str(Some(CharA))>>
LonNeg5  == <<(<<2, 45, 53>>), DataType_Lon(-5)>>
Tim12    == <<(<<2, 49, 50>>), DataType_Tim(12)>>
BufNull  == <<EncodeString(None), DataType_Buf(None)>>
BufEmpty == <<EncodeString(Some(<<>>)), DataType_Buf(Some(<<>>))>>
BufA     == <<EncodeString(Some(CharA)), DataType_Buf(Some(CharA))>>
ArrEmpty == <<type_str \o BigEndian(0), DataType_Arr(<<>>)>>
ArrA     == <<type_str \o BigEndian(1) \o StrA[1], DataType_Arr(<<StrA[2]>>)>>

\* the shapes of hdata sent: the path names, the key names and their type
\* codes, and the objects each position of a record may hold
Shape(paths, names, types, choices) ==
    [paths |-> paths, names |-> names, types |-> types, choices |-> choices]
HDataShapes ==
    { Shape(<<(<<98>>)>>, <<(<<104>>), (<<116>>)>>, <<type_chr, type_arr>>,
            <<{Ptr1a, PtrNull}, {Chr0, Chr1}, {ArrEmpty, ArrA}>>),
      Shape(<<(<<98>>), (<<99>>)>>, <<(<<105>>), (<<115>>)>>, <<type_int, type_str>>,
            <<{Ptr1a}, {PtrNull}, {Int7, IntNeg}, {StrA, StrEmpty}>>),
      Shape(<<(<<98>>)>>, <<(<<115>>), (<<104>>)>>, <<type_str, type_chr>>,
            <<{Ptr1a}, {StrNull, StrA}, {Chr1}>>),
      Shape(<<(<<98>>)>>, <<(<<108>>), (<<109>>)>>, <<type_lon, type_tim>>,
            <<{Ptr1a}, {LonNeg5}, {Tim12}>>),
      Shape(<<(<<98>>)>>, <<(<<117>>)>>, <<type_buf>>,
            <<{Ptr1a}, {BufNull, BufEmpty, BufA}>>),
      Shape(<<(<<98>>), (<<98>>)>>, <<(<<104>>)>>, <<type_chr>>,
            <<{Ptr1a}, {PtrNull}, {Chr1}>>),
      Shape(<<(<<98>>)>>, <<(<<98>>)>>, <<type_chr>>,
            <<{Ptr1a}, {Chr1}>>),
      Shape(<<(<<98>>)>>, <<(<<120>>)>>, <<(<<104, 116, 98>>)>>,
            <<{Ptr1a}, {Chr1}>>) }

\* the records a shape allows: one object for each position
RecordsOfShape(s) ==
    {r \in [1..Len(s.choices) -> UNION {s.choices[i] : i \in 1..Len(s.choices)}] :
        \A i \in 1..Len(s.choices) : r[i] \in s.choices[i]}

\* an hdata: a shape and its records
HDataValues ==
    UNION { [shape : {s}, items : UNION { [1..n -> RecordsOfShape(s)] : n \in 0..MaxItems }]
            : s \in HDataShapes }

EncodeRecord(r) == Concat([i \in 1..Len(r) |-> r[i][1]])

EncodeHData(h, count) ==
    EncodeString(Some(Join(h.shape.paths, 44)))
      \o EncodeString(Some(Join([i \in 1..Len(h.shape.names) |->
                                    KeySpec(h.shape.names[i], h.shape.types[i])], 44)))
      \o BigEndian(count)
      \o Concat([i \in 1..Len(h.items) |-> EncodeRecord(h.items[i])])

\* every hdata whole, with its count
HDataEncodings == {[hdata |-> h, wire |-> EncodeHData(h, Len(h.items))] : h \in HDataValues}

\* an hdata whole, cut short anywhere, followed by one byte more, with a
\* negative count, with null paths or keys, with a key spec that has no
\* colon
HDataInputs ==
    UNION { {SubSeq(e.wire, 1, n) : n \in 0..Len(e.wire)} \cup {e.wire \o <<0>>}
            : e \in HDataEncodings }
      \cup {EncodeHData(h, -1) : h \in {g \in HDataValues : g.items = <<>>}}
      \cup {EncodeString(None) \o EncodeString(Some(KeySpec(<<104>>, type_chr))) \o BigEndian(0),
            EncodeString(Some(<<98>>)) \o EncodeString(None) \o BigEndian(0),
            EncodeString(Some(<<98>>)) \o EncodeString(Some(<<107>>)) \o BigEndian(1)
               \o Ptr1a[1] \o Chr1[1]}

Inputs == PrefixedInputs \cup PointerInputs \cup IntInputs \cup ShortInputs
            \cup HeaderInputs \cup HDataInputs

\* --------------------------------------------------- a decoder is called
CodecInit ==
    /\ pc = "connect_relay"
    /\ stream = "none"
    /\ log = <<>>
    /\ reads = 0
    /\ wire = NoRead
    /\ probe = Pending
    /\ msg = Pending
    /\ played = 0
    /\ result = Pending
    /\ returned = Pending
    /\ overflow_checks \in BOOLEAN
    /\ bytes \in Inputs
    /\ called = "none"
    /\ parsed = Pending

\* a call of bytes_to_i32 of parse.rs on the slice
Call_bytes_to_i32 ==
    /\ called = "none"
    /\ called' = "bytes_to_i32"
    /\ parsed' = bytes_to_i32(bytes)
    /\ UNCHANGED <<session, overflow_checks, bytes>>

\* a call of bytes_to_i32 of conversions.rs on the slice
Call_conversions_bytes_to_i32 ==
    /\ called = "none"
    /\ called' = "conversions_bytes_to_i32"
    /\ parsed' = conversions_bytes_to_i32(bytes)
    /\ UNCHANGED <<session, overflow_checks, bytes>>

\* a call of Parse::string on the slice
Call_Parse_string ==
    /\ called = "none"
    /\ called' = "Parse_string"
    /\ parsed' = Parse_string(bytes)
    /\ UNCHANGED <<session, overflow_checks, bytes>>

\* a call of Parse::buffer on the slice
Call_Parse_buffer ==
    /\ called = "none"
    /\ called' = "Parse_buffer"
    /\ parsed' = Parse_buffer(bytes)
    /\ UNCHANGED <<session, overflow_checks, bytes>>

\* a call of Parse::pointer on the slice
Call_Parse_pointer ==
    /\ called = "none"
    /\ called' = "Parse_pointer"
    /\ parsed' = Parse_pointer(bytes)
    /\ UNCHANGED <<session, overflow_checks, bytes>>

\* a call of extract_string on the slice
Call_extract_string ==
    /\ called = "none"
    /\ called' = "extract_string"
    /\ parsed' = extract_string(bytes)
    /\ UNCHANGED <<session, overflow_checks, bytes>>

\* a call of extract_buffer on the slice
Call_extract_buffer ==
    /\ called = "none"
    /\ called' = "extract_buffer"
    /\ parsed' = extract_buffer(bytes)
    /\ UNCHANGED <<session, overflow_checks, bytes>>

\* a call of extract_pointer on the slice
Call_extract_pointer ==
    /\ called = "none"
    /\ called' = "extract_pointer"
    /\ parsed' = extract_pointer(bytes)
    /\ UNCHANGED <<session, overflow_checks, bytes>>

\* a call of Header::new on the slice
Call_Header_new ==
    /\ called = "none"
    /\ called' = "Header_new"
    /\ parsed' = Header_new(bytes)
    /\ UNCHANGED <<session, overflow_checks, bytes>>

\* a call of HData::new on the slice
Call_HData_new ==
    /\ called = "none"
    /\ called' = "HData_new"
    /\ parsed' = HData_new(bytes)
    /\ UNCHANGED <<session, overflow_checks, bytes>>

\* recv_msg hands MessageHeader::new the HEADER_LENGTH bytes it has read
Call_MessageHeader_new ==
    /\ called = "none"
    /\ Len(bytes) = HEADER_LENGTH
    /\ called' = "MessageHeader_new"
    /\ parsed' = MessageHeader_new([total_msg_length |-> bytes_to_i32(index(bytes, 0, 4)).val,
                                    compression |-> bytes[5]])
    /\ UNCHANGED <<session, overflow_checks, bytes>>

CodecNext ==
    \/ Call_bytes_to_i32
    \/ Call_conversions_bytes_to_i32
    \/ Call_Parse_string
    \/ Call_Parse_buffer
    \/ Call_Parse_pointer
    \/ Call_extract_string
    \/ Call_extract_buffer
    \/ Call_extract_pointer
    \/ Call_Header_new
    \/ Call_HData_new
    \/ Call_MessageHeader_new

CodecSpec == CodecInit /\ [][CodecNext]_vars

\* ------------------------------- what a container decoder may be handed
\* a type code Parse::parse_type does not know, and 3 bytes that are not text
type_xyz  == <<120, 121, 122>>
not_utf8  == <<255, 255, 255>>
TypeCodes == {type_chr, type_int, type_lon, type_str, type_buf, type_ptr, type_tim,
              type_arr, type_htb}

\* an array on the wire: the type code of the elements, their number, the
\* elements; kept, as every object, with the value the bytes stand for
EncodeArray(type, elems) ==
    <<type \o BigEndian(Len(elems)) \o Concat([i \in 1..Len(elems) |-> elems[i][1]]),
      Object_Arr([i \in 1..Len(elems) |-> elems[i][2]])>>

\* a hashtable on the wire: the type codes of the keys and of the values,
\* the number of entries, then every key followed by its value
RECURSIVE MapOf(_)
MapOf(entries) ==
    IF entries = <<>> THEN <<>>
    ELSE LET n == Len(entries)
         IN  insert(MapOf(SubSeq(entries, 1, n - 1)), entries[n][1][2], entries[n][2][2])
EncodeHashtable(key_type, value_type, entries) ==
    <<key_type \o value_type \o BigEndian(Len(entries))
        \o Concat([i \in 1..Len(entries) |-> entries[i][1][1] \o entries[i][2][1]]),
      Object_Htb(MapOf(entries))>>

Int1   == <<BigEndian(1), Object_Int(1)>>
Int2   == <<BigEndian(2), Object_Int(2)>>
Int3   == <<BigEndian(3), Object_Int(3)>>
Arr12  == EncodeArray(type_int, <<Int1, Int2>>)
Arr3   == EncodeArray(type_int, <<Int3>>)
\* [[1,2],[3]]
Arr12_3  == EncodeArray(type_arr, <<Arr12, Arr3>>)
HtbEmpty == EncodeHashtable(type_str, type_int, <<>>)
HtbA7    == EncodeHashtable(type_str, type_int, <<(<<StrA, Int7>>)>>)

\* the objects an element of each type may be
ElementsOf(type) ==
    CASE type = type_chr -> {Chr0, Chr1}
      [] type = type_int -> {Int7, IntNeg}
      [] type = type_lon -> {LonNeg5}
      [] type = type_str -> {StrA, StrEmpty, StrNull}
      [] type = type_buf -> {BufA, BufEmpty, BufNull}
      [] type = type_ptr -> {Ptr1a, PtrNull}
      [] type = type_tim -> {Tim12}
      [] type = type_arr -> {Arr12, Arr3, ArrEmpty}
      [] type = type_htb -> {HtbEmpty, HtbA7}

\* every array of up to MaxElems elements, with its type code
ArrayValues ==
    UNION { [type : {t}, elems : UNION { [1..n -> ElementsOf(t)] : n \in 0..MaxElems }]
            : t \in TypeCodes }
ArrayEncodings ==
    {[array |-> a, enc |-> EncodeArray(a.type, a.elems)] : a \in ArrayValues}
      \cup {[array |-> [type |-> type_arr, elems |-> <<Arr12, Arr3>>], enc |-> Arr12_3]}

\* the elements of an array behind a count that is not their number
Miscounted(a, count) ==
    a.type \o BigEndian(count) \o Concat([i \in 1..Len(a.elems) |-> a.elems[i][1]])

\* an array whole, cut short anywhere, followed by one byte more, with a
\* count that is negative or above the number of elements sent, with a type
\* code that is unknown or not text
ArrayInputs ==
    UNION { {SubSeq(e.enc[1], 1, n) : n \in 0..Len(e.enc[1])} \cup {e.enc[1] \o <<0>>}
            : e \in ArrayEncodings }
      \cup {Miscounted(a, c) : a \in {v \in ArrayValues : Len(v.elems) <= 1},
                               c \in {-1, 2, Large}}
      \cup {t \o BigEndian(c) \o r : t \in {type_xyz, not_utf8}, c \in {-1, 0, 1, 2},
                                     r \in {<<>>, Chr1[1], Int7[1]}}

\* the hashtables sent: the type codes, and the keys and values an entry may
\* hold
HashtableShapes ==
    { [key_type |-> type_str, value_type |-> type_int,
       keys |-> {StrA, StrEmpty}, values |-> {Int7, IntNeg}],
      [key_type |-> type_int, value_type |-> type_arr,
       keys |-> {Int7}, values |-> {ArrA}],
      [key_type |-> type_chr, value_type |-> type_ptr,
       keys |-> {Chr0, Chr1}, values |-> {Ptr1a}] }
EntriesOf(s) == {<<k, v>> : k \in s.keys, v \in s.values}
HashtableValues ==
    UNION { [shape : {s}, entries : UNION { [1..n -> EntriesOf(s)] : n \in 0..MaxElems }]
            : s \in HashtableShapes }
HashtableEncodings ==
    {[hashtable |-> h,
      enc |-> EncodeHashtable(h.shape.key_type, h.shape.value_type, h.entries)]
        : h \in HashtableValues}

\* a hashtable whole, cut short anywhere, with a count that is negative or
\* above the number of entries sent, with a key or value type code that is
\* unknown
HashtableInputs ==
    UNION { {SubSeq(e.enc[1], 1, n) : n \in 0..Len(e.enc[1])} : e \in HashtableEncodings }
      \cup {k \o v \o BigEndian(c) \o Int7[1] \o Int7[1] :
                k \in {type_int, type_xyz}, v \in {type_int, type_xyz, not_utf8},
                c \in {-1, 0, 1, 2, Large}}

\* a type code followed by one object, whole or cut short, of that type or
\* of another
ObjectWires ==
    {<<>>} \cup UNION { { p[1] : p \in ElementsOf(t) } : t \in TypeCodes }
           \cup {<<255>>, <<255, 97>>, <<2, 49>>}
TaggedInputs == {t \o w : t \in TypeCodes \cup {type_xyz}, w \in ObjectWires}

\* a message body on the wire: the identifier as a string, the 3-byte tag,
\* then one string (str) or one hdata (hda)
EncodeMessage(identifier, tag, payload) == EncodeString(identifier) \o tag \o payload
StrPayloads == {StrNull[1], StrEmpty[1], StrA[1], StrNull[1] \o <<0>>, StrA[1] \o <<0>>,
                <<0, 0>>}
HdaPayloads == {e.wire : e \in {f \in HDataEncodings : Len(f.hdata.items) <= 1}}
                 \cup {EncodeString(Some(<<98>>)) \o EncodeString(Some(<<107>>))
                         \o BigEndian(1) \o Ptr1a[1] \o Chr1[1]}
MessageEncodings ==
    {EncodeMessage(i, tag_str, p) : i \in {None, Some(<<>>), Some(CharA)}, p \in StrPayloads}
      \cup {EncodeMessage(Some(CharA), tag_hda, p) : p \in HdaPayloads}
      \cup {EncodeMessage(Some(CharA), t, StrA[1]) : t \in {type_xyz, not_utf8}}

\* a message whole or cut short anywhere
MessageInputs ==
    UNION { {SubSeq(m, 1, n) : n \in 0..Len(m)} : m \in MessageEncodings }

\* an hdata whole, or with a count that is negative or above the number of
\* records sent
HDataCounted ==
    HdaPayloads \cup {EncodeHData(h, c) : h \in {g \in HDataValues : Len(g.items) <= 1},
                                          c \in {-1, 2, Large}}

ObjectInputs == PointerInputs \cup HeaderInputs \cup TaggedInputs \cup ArrayInputs
                  \cup HashtableInputs \cup MessageInputs \cup HDataCounted

\* ------------------------------------------- a container decoder is called
ObjectInit ==
    /\ pc = "connect_relay"
    /\ stream = "none"
    /\ log = <<>>
    /\ reads = 0
    /\ wire = NoRead
    /\ probe = Pending
    /\ msg = Pending
    /\ played = 0
    /\ result = Pending
    /\ returned = Pending
    /\ overflow_checks \in BOOLEAN
    /\ bytes \in ObjectInputs
    /\ called = "none"
    /\ parsed = Pending

\* a call of Parse::long on the slice
Call_Parse_long ==
    /\ called = "none"
    /\ called' = "Parse_long"
    /\ parsed' = Parse_long(bytes)
    /\ UNCHANGED <<session, overflow_checks, bytes>>

\* a call of Parse::time on the slice
Call_Parse_time ==
    /\ called = "none"
    /\ called' = "Parse_time"
    /\ parsed' = Parse_time(bytes)
    /\ UNCHANGED <<session, overflow_checks, bytes>>

\* a call of Parse::array on the slice
Call_Parse_array ==
    /\ called = "none"
    /\ called' = "Parse_array"
    /\ parsed' = Parse_array(bytes)
    /\ UNCHANGED <<session, overflow_checks, bytes>>

\* a call of Parse::hashtable on the slice
Call_Parse_hashtable ==
    /\ called = "none"
    /\ called' = "Parse_hashtable"
    /\ parsed' = Parse_hashtable(bytes)
    /\ UNCHANGED <<session, overflow_checks, bytes>>

\* a call of Parse::parse_type with the 3 bytes of a type code, on the
\* slice after them
Call_Parse_parse_type ==
    /\ called = "none"
    /\ Len(bytes) >= 3
    /\ called' = "Parse_parse_type"
    /\ parsed' = Parse_parse_type(index(bytes, 0, 3), index(bytes, 3, Len(bytes)))
    /\ UNCHANGED <<session, overflow_checks, bytes>>

\* HData::new decodes the field of a key of the type the 3 bytes name, on
\* the slice after them
Call_hdata_field ==
    /\ called = "none"
    /\ Len(bytes) >= 3
    /\ called' = "hdata_field"
    /\ parsed' = LET extracted == extract_type(index(bytes, 0, 3), bytes, 3)
                 IN  IF extracted.st = "Pending" THEN Err(ParseError("Bad type for key"))
                     ELSE extracted
    /\ UNCHANGED <<session, overflow_checks, bytes>>

\* a call of StrData::new on the slice
Call_StrData_new ==
    /\ called = "none"
    /\ called' = "StrData_new"
    /\ parsed' = StrData_new(bytes)
    /\ UNCHANGED <<session, overflow_checks, bytes>>

\* a call of Message::new on the slice
Call_Message_new ==
    /\ called = "none"
    /\ called' = "Message_new"
    /\ parsed' = Message_new(bytes)
    /\ UNCHANGED <<session, overflow_checks, bytes>>

\* a call of MessageHeader::new of message_header.rs on the slice
Call_message_header_MessageHeader_new ==
    /\ called = "none"
    /\ called' = "message_header_MessageHeader_new"
    /\ parsed' = message_header_MessageHeader_new(bytes)
    /\ UNCHANGED <<session, overflow_checks, bytes>>

\* A decoder inside its loop: the cursor, the passes still to make, the
\* passes made and the container so far
Loop(cur_pos, remaining, passes, container) ==
    [st |-> "Loop", val |-> [cur_pos |-> cur_pos, remaining |-> remaining,
                             passes |-> passes, container |-> container]]

\* Parse::array up to its loop
Enter_Parse_array ==
    /\ called = "none"
    /\ called' = "Parse_array_loop"
    /\ parsed' = IF Len(bytes) < 7 THEN Err(ParseError("Not enough bytes to have an array"))
                 ELSE IF from_utf8(index(bytes, 0, 3)).st = "Err"
                      THEN from_utf8(index(bytes, 0, 3))
                 ELSE Loop(7, bytes_to_i32(index(bytes, 3, 7)).val, 0, <<>>)
    /\ UNCHANGED <<session, overflow_checks, bytes>>

\* Parse::array: one pass of its loop, or the return after the last
Pass_Parse_array ==
    /\ called = "Parse_array_loop"
    /\ parsed.st = "Loop"
    /\ parsed' =
          IF parsed.val.remaining <= 0
          THEN Ok(Parse(Object_Arr(parsed.val.container), parsed.val.cur_pos))
          ELSE try(Parse_array_pass(bytes, index(bytes, 0, 3), parsed.val.cur_pos,
                                    parsed.val.container),
                   LAMBDA pass : Loop(pass.cur_pos, parsed.val.remaining - 1,
                                      parsed.val.passes + 1, pass.array))
    /\ UNCHANGED <<session, overflow_checks, bytes, called>>

\* Parse::hashtable up to its loop
Enter_Parse_hashtable ==
    /\ called = "none"
    /\ called' = "Parse_hashtable_loop"
    /\ parsed' = IF Len(bytes) < 10
                 THEN Err(ParseError("Not enough bytes to have a hashtable"))
                 ELSE IF from_utf8(index(bytes, 0, 3)).st = "Err"
                      THEN from_utf8(index(bytes, 0, 3))
                 ELSE IF from_utf8(index(bytes, 3, 6)).st = "Err"
                      THEN from_utf8(index(bytes, 3, 6))
                 ELSE Loop(10, bytes_to_i32(index(bytes, 6, 10)).val, 0, <<>>)
    /\ UNCHANGED <<session, overflow_checks, bytes>>

\* Parse::hashtable: one pass of its loop, or the return after the last
Pass_Parse_hashtable ==
    /\ called = "Parse_hashtable_loop"
    /\ parsed.st = "Loop"
    /\ parsed' =
          IF parsed.val.remaining <= 0
          THEN Ok(Parse(Object_Htb(parsed.val.container), parsed.val.cur_pos))
          ELSE try(Parse_hashtable_pass(bytes, index(bytes, 0, 3), index(bytes, 3, 6),
                                        parsed.val.cur_pos, parsed.val.container),
                   LAMBDA pass : Loop(pass.cur_pos, parsed.val.remaining - 1,
                                      parsed.val.passes + 1, pass.map))
    /\ UNCHANGED <<session, overflow_checks, bytes, called>>

\* HData::new up to its loop: the path names, the key specs, the record
\* count and the position of the first record
hdata_head(data) ==
    LET extracted_paths == extract_string(data)
    IN  IF extracted_paths.st # "Ok" THEN extracted_paths
        ELSE IF extracted_paths.val.value[2] = None
             THEN Err(ParseError("Invalid Path type"))
        ELSE LET cur_pos  == extracted_paths.val.bytes_read
                 extracted_keys == extract_string(index(data, cur_pos, Len(data)))
             IN  IF extracted_keys.st # "Ok" THEN extracted_keys
                 ELSE IF extracted_keys.val.value[2] = None
                      THEN Err(ParseError("Invalid key type"))
                 ELSE LET cur_pos_2 == advance(cur_pos, extracted_keys.val.bytes_read)
                      IN  IF ~in_bounds(data, cur_pos_2, advance(cur_pos_2, 4)) THEN Panic
                          ELSE Ok([paths |-> split(extracted_paths.val.value[2][2], 44),
                                   keys  |-> split(extracted_keys.val.value[2][2], 44),
                                   num_hdata_items |->
                                       conversions_bytes_to_i32(
                                           index(data, cur_pos_2, cur_pos_2 + 4)).val,
                                   cur_pos |-> cur_pos_2 + 4])

\* HData::new up to its loop over the records
Enter_HData_new ==
    /\ called = "none"
    /\ called' = "HData_new_loop"
    /\ parsed' = try(hdata_head(bytes),
                     LAMBDA head : Loop(head.cur_pos, head.num_hdata_items, 0, <<>>))
    /\ UNCHANGED <<session, overflow_checks, bytes>>

\* HData::new: the decoding of one record, or the return after the last
Pass_HData_new ==
    /\ called = "HData_new_loop"
    /\ parsed.st = "Loop"
    /\ parsed' =
          IF parsed.val.remaining <= 0 THEN Ok(hdata_HData(parsed.val.container))
          ELSE try(hdata_paths(bytes, hdata_head(bytes).val.paths, 1,
                               parsed.val.cur_pos, <<>>),
                   LAMBDA with_paths :
                       try(hdata_keys(bytes, hdata_head(bytes).val.keys, 1,
                                      with_paths.cur_pos, with_paths.key_value_map),
                           LAMBDA with_keys :
                               Loop(with_keys.cur_pos, parsed.val.remaining - 1,
                                    parsed.val.passes + 1,
                                    Append(parsed.val.container,
                                           with_keys.key_value_map))))
    /\ UNCHANGED <<session, overflow_checks, bytes, called>>

ObjectNext ==
    \/ Call_Parse_pointer
    \/ Call_Parse_long
    \/ Call_Parse_time
    \/ Call_Parse_array
    \/ Call_Parse_hashtable
    \/ Call_Parse_parse_type
    \/ Call_hdata_field
    \/ Call_StrData_new
    \/ Call_Message_new
    \/ Call_Header_new
    \/ Call_message_header_MessageHeader_new
    \/ Call_MessageHeader_new
    \/ Enter_Parse_array
    \/ Pass_Parse_array
    \/ Enter_Parse_hashtable
    \/ Pass_Parse_hashtable
    \/ Enter_HData_new
    \/ Pass_HData_new

ObjectSpec == ObjectInit /\ [][ObjectNext]_vars

\* ------------------------------------------------------------------ claims
Ops(l)     == [i \in 1..Len(l) |-> l[i][1]]
IsCommand(e) == e[1] \in {"init", "ping", "sync", "quit"}
Commands   == Ops(SelectSeq(log, IsCommand))
IsCloseOp(e) == e[1] \in {"quit", "flush", "shutdown"}
CloseOps   == Ops(SelectSeq(log, IsCloseOp))
Attempted(op) == \E i \in 1..Len(log) : log[i][1] = op
Written(op)   == \E i \in 1..Len(log) : log[i] = <<op, TRUE>>
Failed(op)    == \E i \in 1..Len(log) : log[i] = <<op, FALSE>>
Closing    == pc \in {"quit", "flush", "shutdown", "return", "done"}
InLoop     == msg.st # "Pending"
EofError   == Err(Io("UnexpectedEof"))

\* C1: when init and ping have been written and the peer closes the stream
\* before any byte of the reply, the result of the session is BadPassword,
\* and that is what run() returns.
C1_EarlyCloseIsBadPassword ==
    (Attempted("ping") /\ ~InLoop /\ wire.header_read = "UnexpectedEof")
        => /\ Closing
           /\ result = Err(BadPassword)
           /\ pc = "done" => returned = Err(BadPassword)

C1_Witness ==
    /\ pc = "done"
    /\ Written("init") /\ Written("ping")
    /\ ~InLoop /\ wire.header_read = "UnexpectedEof"
    /\ returned = Err(BadPassword)

\* C2: BadPassword comes only from an end of stream met by the probe read, no
\* loop read having been made; an end of stream met by a read of the loop
\* gives the Io error of that read.
C2_BadPasswordOnlyFromProbe ==
    /\ (result = Err(BadPassword) \/ returned = Err(BadPassword))
          => (probe = EofError /\ ~InLoop)
    /\ (InLoop /\ msg = EofError)
          => /\ probe.st = "Ok"
             /\ Closing
             /\ result = EofError
             /\ pc = "done" => returned = EofError

C2_Witness ==
    /\ pc = "done"
    /\ probe.st = "Ok"
    /\ msg = EofError
    /\ returned = EofError

IsPong(m) == m.identifier = "_pong" /\ m.data.type = "StrData" /\ m.data.str = Some("foo")

Rank(op) == CASE op = "init" -> 1 [] op = "ping" -> 2 [] op = "sync" -> 3 [] op = "quit" -> 4

\* C4: the commands written are in the order init, ping, sync, quit, each at
\* most once; ping follows a written init, sync follows a probe read that
\* returned a message, and no command follows quit.
C4_CommandOrder ==
    /\ \A i, j \in 1..Len(Commands) : i < j => Rank(Commands[i]) < Rank(Commands[j])
    /\ Attempted("ping") => Written("init")
    /\ Attempted("sync") => (Attempted("ping") /\ probe.st = "Ok")
    /\ \A i \in 1..Len(log) : log[i][1] = "quit" =>
          \A j \in (i + 1)..Len(log) : ~IsCommand(log[j])

C4_Witness ==
    /\ pc = "done"
    /\ Commands = <<"init", "ping", "sync", "quit">>
    /\ reads = MaxReads

\* C5: in a run that connected, whatever ends the session, quit, flush and
\* shutdown have been attempted, in that order, when run() is over.
C5_CloseOnEveryExit ==
    (stream # "none" /\ pc \in {"done", "panicked"})
        => CloseOps = <<"quit", "flush", "shutdown">>

\* the error that ended init_relay or the loop
Cause ==
    IF Failed("init") THEN send_cmd(FALSE)
    ELSE IF probe.st = "Err" THEN init_relay_match(probe)
    ELSE IF Failed("sync") THEN send_cmd(FALSE)
    ELSE msg

\* C6: run() returns the error that ended init_relay or the loop, whatever
\* the outcomes of the quit write, the flush and the shutdown.
C6_CloseNeverMasks ==
    (pc = "done" /\ stream # "none")
        => /\ returned.st = "Err"
           /\ returned = Cause
           /\ returned = result

C6_Witness ==
    /\ pc = "done"
    /\ Failed("quit") /\ Failed("flush") /\ Failed("shutdown")
    /\ returned = Err(BadPassword)

\* C7: when the connection fails run() returns an Io error, and nothing has
\* been written to or read from a stream.
C7_ConnectFailureStops ==
    (stream = "none")
        => /\ pc \in {"connect_relay", "done"}
           /\ log = <<>>
           /\ reads = 0
           /\ pc = "done" => (returned.st = "Err" /\ returned.val.tag = "Io")

C7_Witness ==
    /\ pc = "done"
    /\ stream = "none"
    /\ returned = Err(Io("ConnectionRefused"))

CharHighlight(r) == "highlight" \in DOMAIN r /\ r["highlight"][1] = "Chr"
StrTagsArray(r)  ==
    /\ "tags_array" \in DOMAIN r
    /\ r["tags_array"][1] = "Arr"
    /\ \A i \in 1..Len(r["tags_array"][2]) : r["tags_array"][2][i][1] = "Str"
WellFormed(data) == \A i \in 1..Len(data) : CharHighlight(data[i]) /\ StrTagsArray(data[i])

\* a body of the loop that cannot be decoded, or cannot be dispatched
Unusable(b) ==
    \/ b.tag \notin {"str", "hda"}
    \/ /\ b.identifier = Some("_buffer_line_added")
       /\ b.tag = "str" \/ (b.tag = "hda" /\ ~WellFormed(b.data))

\* C8: a message of the loop that cannot be decoded or dispatched ends the
\* session with an error, which run() returns.
C8_UnusableMessageIsAnError ==
    (InLoop /\ wire.body_read = "data" /\ MessageHeader_new(wire.frame).st = "Ok"
       /\ Unusable(wire.frame.body) /\ pc # "dispatch")
        => /\ Closing
           /\ result.st = "Err"
           /\ pc = "done" => returned.st = "Err"

NotifyWorthy(r) ==
    \/ r["highlight"][2] = 1
    \/ \E i \in 1..Len(r["tags_array"][2]) :
          r["tags_array"][2][i] = DataType_Str(Some("notify_private"))

\* C9: for a "_buffer_line_added" message whose records all have a char
\* highlight and an array-of-string tags_array, the notification is
\* triggered, once, if and only if some record has highlight 1 or a tag
\* "notify_private".
C9_NotifyIffHighlightOrPrivate ==
    (msg.st = "Ok" /\ pc # "dispatch" /\ msg.val.identifier = "_buffer_line_added"
       /\ msg.val.data.type = "HData" /\ WellFormed(msg.val.data.data))
        => /\ pc = "loop_end"
           /\ played = IF \E i \in 1..Len(msg.val.data.data) :
                              NotifyWorthy(msg.val.data.data[i])
                       THEN 1 ELSE 0

C9_Witness ==
    /\ pc = "loop_end"
    /\ msg.st = "Ok" /\ msg.val.identifier = "_buffer_line_added"
    /\ msg.val.data.type = "HData" /\ Len(msg.val.data.data) = 2
    /\ WellFormed(msg.val.data.data)
    /\ msg.val.data.data[1]["highlight"] = DataType_Chr(0)
    /\ msg.val.data.data[1]["tags_array"] =
          DataType_Arr(<<DataType_Str(Some("notify_message")), DataType_Str(Some("notify_private"))>>)
    /\ msg.val.data.data[2]["highlight"] = DataType_Chr(0)
    /\ msg.val.data.data[2]["tags_array"] = DataType_Arr(<<DataType_Str(Some("notify_message"))>>)
    /\ played = 1

\* C10: a message of the loop that decodes and whose identifier is not
\* "_buffer_line_added" is dropped without a notification, and the loop goes
\* on: it does not end the session.
C10_OtherIdentifiersDiscarded ==
    (msg.st = "Ok" /\ pc # "dispatch" /\ msg.val.identifier # "_buffer_line_added")
        => /\ pc = "loop_end"
           /\ played = 0
           /\ result = Pending

C10_Witness ==
    /\ pc = "loop_end"
    /\ msg.st = "Ok" /\ msg.val.identifier = "_nicklist"
    /\ msg.val.data.type = "HData" /\ Len(msg.val.data.data) = 1
    /\ CharHighlight(msg.val.data.data[1])
    /\ msg.val.data.data[1]["highlight"] = DataType_Chr(1)
    /\ played = 0

\* C11: a failed write of the init command ends init_relay with the Io error
\* of that write, no ping written and nothing read; a failed write of the
\* ping is ignored: the probe read follows it, and the reply to the probe
\* alone decides how init_relay ends.
C11_InitFailureEndsPingFailureIgnored ==
    /\ Failed("init")
          => /\ ~Attempted("ping") /\ reads = 0 /\ probe = Pending
             /\ Closing
             /\ result = send_cmd(FALSE) /\ result.val.tag = "Io"
             /\ pc = "done" => returned = result
    /\ Attempted("ping") => (pc = "probe" \/ probe # Pending)
    /\ (Attempted("ping") /\ probe # Pending)
          => CASE init_relay_match(probe).st = "Ok" ->
                    pc = "send_sync" \/ Attempted("sync")
               [] init_relay_match(probe).st = "Err" ->
                    ~Attempted("sync") /\ Closing /\ result = init_relay_match(probe)
               [] OTHER -> ~Attempted("sync") /\ pc = "panicked"

C11_Witness ==
    /\ Written("init") /\ Failed("ping")
    /\ probe.st = "Ok" /\ IsPong(probe.val)
    /\ pc = "send_sync"

IsPrefix(p, s)  == Len(p) <= Len(s) /\ SubSeq(s, 1, Len(p)) = p
IsParseError(r) == r.st = "Err" /\ r.val.tag = "ParseError"

\* the hdata whose names are all different and whose type codes HData::new
\* knows
KnownTypes == {type_chr, type_int, type_lon, type_str, type_buf, type_ptr, type_tim, type_arr}
Regular(s) ==
    /\ \A i \in 1..Len(s.types) : s.types[i] \in KnownTypes
    /\ Cardinality({s.paths[i] : i \in 1..Len(s.paths)}
                     \cup {s.names[i] : i \in 1..Len(s.names)}) = Len(s.paths) + Len(s.names)

\* C12: HData::new returns an HData only for an input it has consumed to the
\* last byte: an hdata followed by more bytes, and an hdata cut short, give a
\* ParseError.
C12_HDataConsumesAllBytes ==
    (called = "HData_new")
        => \A e \in HDataEncodings :
              (Regular(e.hdata.shape) /\ bytes # e.wire
                 /\ (IsPrefix(e.wire, bytes) \/ IsPrefix(bytes, e.wire)))
                  => IsParseError(parsed)

\* C13: HData::new on an hdata of P path names, K key specs and count R
\* returns R records of P + K keys each, every path name bound to the pointer
\* sent for it and every key name to the object sent for it.
C13_HDataRecords ==
    (called = "HData_new")
        => \A e \in HDataEncodings :
              (Regular(e.hdata.shape) /\ bytes = e.wire)
                  => LET s == e.hdata.shape
                         P == Len(s.paths)
                         K == Len(s.names)
                         R == Len(e.hdata.items)
                     IN  /\ parsed.st = "Ok"
                         /\ Len(parsed.val.data) = R
                         /\ \A i \in 1..R :
                              /\ Cardinality(DOMAIN parsed.val.data[i]) = P + K
                              /\ \A j \in 1..P :
                                   /\ s.paths[j] \in DOMAIN parsed.val.data[i]
                                   /\ parsed.val.data[i][s.paths[j]] = e.hdata.items[i][j][2]
                              /\ \A j \in 1..K :
                                   /\ s.names[j] \in DOMAIN parsed.val.data[i]
                                   /\ parsed.val.data[i][s.names[j]] = e.hdata.items[i][P + j][2]

\* C14: a string sent as its length L >= 0 and the L bytes of a UTF-8 text,
\* whatever follows, is decoded as that text (the empty string, not null,
\* for L = 0), with 4 + L bytes reported read.
C14_StringRoundTrip ==
    \A t \in Utf8Texts :
        IsPrefix(EncodeString(Some(t)), bytes)
            => /\ called = "Parse_string"
                    => parsed = Ok(Parse(Object_Str(Some(t)), 4 + Len(t)))
               /\ called = "extract_string"
                    => parsed = Ok(ExtractedData(DataType_Str(Some(t)), 4 + Len(t)))

C14_Witness ==
    /\ called = "Parse_string"
    /\ bytes = EncodeString(Some(CharE9)) \o CharA
    /\ parsed = Ok(Parse(Object_Str(Some(CharE9)), 6))

\* C15: a string sent as the length -1 is decoded as the null string, with 4
\* bytes reported read.
C15_NullStringConsumesFour ==
    IsPrefix(BigEndian(-1), bytes)
        => /\ called = "Parse_string" => parsed = Ok(Parse(Object_Str(None), 4))
           /\ called = "extract_string" => parsed = Ok(ExtractedData(DataType_Str(None), 4))

\* C16: a buffer sent as its length L >= 0 and L bytes, whatever follows, is
\* decoded as those L bytes (the empty buffer for L = 0), with 4 + L bytes
\* reported read; a buffer sent as the length -1 is decoded as the null
\* buffer.
C16_BufferDecodes ==
    /\ \A t \in Tails :
          IsPrefix(EncodeString(Some(t)), bytes)
              => /\ called = "Parse_buffer"
                      => parsed = Ok(Parse(Object_Buf(Some(t)), 4 + Len(t)))
                 /\ called = "extract_buffer"
                      => parsed = Ok(ExtractedData(DataType_Buf(Some(t)), 4 + Len(t)))
    /\ IsPrefix(BigEndian(-1), bytes)
          => /\ called = "Parse_buffer"
                  => (parsed.st = "Ok" /\ parsed.val.object = Object_Buf(None))
             /\ called = "extract_buffer"
                  => (parsed.st = "Ok" /\ parsed.val.value = DataType_Buf(None))

\* the lengths a prefix may declare that exceed the bytes after it
Declared == (1..(MaxTail + 1)) \cup {Large}

\* C17: a string or a buffer whose length exceeds the bytes that follow the
\* 4 bytes of the length gives a ParseError: no slice is taken beyond the
\* input.
C17_LengthBeyondInputIsParseError ==
    (called \in {"Parse_string", "Parse_buffer"})
        => \A L \in Declared :
              (IsPrefix(BigEndian(L), bytes) /\ L > Len(bytes) - 4) => IsParseError(parsed)

PointerOf(t) == IF t = Char0 THEN None ELSE Some(t)

\* C18 as stated: a pointer sent as its length P >= 0 and the P bytes of its
\* text, whatever follows and also when nothing does, is decoded with 1 + P
\* bytes reported read, as null when the text is "0" and as the text
\* otherwise.
C18_PointerAnyLength ==
    \A t \in Utf8Texts :
        IsPrefix(<<Len(t)>> \o t, bytes)
            => /\ called = "Parse_pointer"
                    => parsed = Ok(Parse(Object_Ptr(PointerOf(t)), 1 + Len(t)))
               /\ called = "extract_pointer"
                    => parsed = Ok(ExtractedData(DataType_Ptr(PointerOf(t)), 1 + Len(t)))

\* C18 amended: in a slice of 2 bytes or more, a pointer sent as its length
\* P >= 0 and the P bytes of its text, whatever follows, is decoded with
\* 1 + P bytes reported read, as null when the text is "0" and as the text
\* otherwise; a slice of less than 2 bytes, the length byte 0 alone included,
\* gives a ParseError.
C18_PointerDecodes ==
    /\ \A t \in Utf8Texts :
          (Len(bytes) >= 2 /\ IsPrefix(<<Len(t)>> \o t, bytes))
              => /\ called = "Parse_pointer"
                      => parsed = Ok(Parse(Object_Ptr(PointerOf(t)), 1 + Len(t)))
                 /\ called = "extract_pointer"
                      => parsed = Ok(ExtractedData(DataType_Ptr(PointerOf(t)), 1 + Len(t)))
    /\ (Len(bytes) < 2 /\ called \in {"Parse_pointer", "extract_pointer"})
          => IsParseError(parsed)

C18_Witness ==
    /\ called = "Parse_pointer"
    /\ bytes = <<1, 48, 97>>
    /\ parsed = Ok(Parse(Object_Ptr(None), 2))

\* C19: bytes_to_i32 returns v on the 4 bytes of the big-endian encoding of
\* an i32 v, negative or not, and a ParseError on a slice that has not 4
\* bytes.
C19_BytesToI32LeftInverse ==
    (called \in {"bytes_to_i32", "conversions_bytes_to_i32"})
        => /\ \A v \in IntValues : bytes = BigEndian(v) => parsed = Ok(v)
           /\ Len(bytes) # 4 => IsParseError(parsed)

C19_Witness ==
    /\ called = "bytes_to_i32"
    /\ bytes = <<255, 255, 255, 127>>
    /\ parsed = Ok(-129)

\* C20: on the 5 bytes of a header whose total T is 5 or more and whose
\* compression byte is 0 or 1, the header decoded has length T - 5 and the
\* compression flag of that byte; on a compression byte other than 0 and 1
\* the decoder returns a ParseError.
C20_HeaderDecode ==
    (called \in {"Header_new", "MessageHeader_new"} /\ Len(bytes) = HEADER_LENGTH)
        => /\ \A T \in HeaderTotals :
                (T >= HEADER_LENGTH /\ IsPrefix(BigEndian(T), bytes) /\ bytes[5] \in {0, 1})
                    => parsed = Ok([length |-> T - HEADER_LENGTH,
                                    compression |-> (bytes[5] = 1)])
           /\ bytes[5] \notin {0, 1} => IsParseError(parsed)

\* C27: run() never returns Ok: whenever it has returned, it has returned
\* an error; and when the peer closes the stream at a message boundary
\* during streaming, the error returned is the Io error of the end of
\* stream.
C27_RunNeverReturnsOk ==
    /\ returned.st \in {"Pending", "Err"}
    /\ pc = "done" => returned.st = "Err"
    /\ (pc = "done" /\ InLoop /\ wire.header_read = "UnexpectedEof")
          => returned = EofError

C27_Witness ==
    /\ pc = "done"
    /\ InLoop
    /\ reads >= 3
    /\ wire.header_read = "UnexpectedEof"
    /\ returned = EofError

\* the records before record i are examined without a panic and none of
\* them has highlight 1
CleanBefore(data, i) ==
    \A j \in 1..(i - 1) :
        CharHighlight(data[j]) /\ data[j]["highlight"][2] # 1 /\ StrTagsArray(data[j])
FirstHighlight(data, i) ==
    /\ i \in 1..Len(data)
    /\ CharHighlight(data[i])
    /\ data[i]["highlight"][2] = 1
    /\ CleanBefore(data, i)

\* C28: the dispatch of one "_buffer_line_added" message triggers the
\* notification at most once; and when some record has highlight 1 and the
\* records before it are sound, the notification is triggered once
\* whatever the records after it hold: they are not examined.
C28_NotifyAtMostOnce ==
    /\ played <= 1
    /\ (msg.st = "Ok" /\ pc # "dispatch" /\ msg.val.identifier = "_buffer_line_added"
          /\ msg.val.data.type = "HData"
          /\ \E i \in 1..Len(msg.val.data.data) : FirstHighlight(msg.val.data.data, i))
         => pc = "loop_end" /\ played = 1

C28_Witness ==
    /\ msg.st = "Ok"
    /\ pc = "loop_end"
    /\ played = 1
    /\ msg.val.identifier = "_buffer_line_added"
    /\ msg.val.data.type = "HData"
    /\ Len(msg.val.data.data) >= 2
    /\ FirstHighlight(msg.val.data.data, 1)
    /\ ~StrTagsArray(msg.val.data.data[2])
    /\ msg.val.data.data[2]["highlight"][2] # 1

\* C21: an array whose element type code, or a hashtable whose key or value
\* type code, is none of the nine known codes yields a ParseError, whatever
\* count it declares.
C21_UnknownTagIsParseError ==
    /\ (called = "Parse_array" /\ Len(bytes) >= 7 /\ index(bytes, 0, 3) \notin TypeCodes)
          => IsParseError(parsed)
    /\ (called = "Parse_hashtable" /\ Len(bytes) >= 10
          /\ (index(bytes, 0, 3) \notin TypeCodes \/ index(bytes, 3, 6) \notin TypeCodes))
          => IsParseError(parsed)

\* C22: the encoding of an array of N elements of type T, whatever follows
\* it, decodes to the N elements in wire order, each the value its bytes
\* stand for, and the bytes read are 7 plus the bytes of the elements.
C22_ArrayDecodes ==
    called = "Parse_array" =>
        \A e \in ArrayEncodings :
            IsPrefix(e.enc[1], bytes) =>
                /\ parsed.st = "Ok"
                /\ parsed.val.object = e.enc[2]
                /\ parsed.val.bytes_read = Len(e.enc[1])

\* C23: Message::new and StrData::new return a value or an error for every
\* slice: none makes them panic.
C23_MessageDecodeNeverPanics ==
    called \in {"Message_new", "StrData_new"} => parsed.st \in {"Ok", "Err"}

\* C24: the field of an hdata key of type code t is decoded exactly as
\* Parse::parse_type decodes an object of type code t: both succeed or both
\* fail, and on success the value and the bytes read are the same.
C24_HDataFieldsAsParseType ==
    called = "hdata_field" =>
        LET object == Parse_parse_type(index(bytes, 0, 3), index(bytes, 3, Len(bytes)))
        IN  /\ (parsed.st = "Ok") = (object.st = "Ok")
            /\ parsed.st = "Ok" =>
                  /\ parsed.val.value = object.val.object
                  /\ parsed.val.bytes_read = object.val.bytes_read

\* C25: a message with the tag "str" and the null string as its whole
\* payload decodes to a Message with a null StrData; a "str" payload with
\* bytes after its string yields a ParseError.
C25_NullStrData ==
    called = "Message_new" =>
        \A i \in {<<>>, CharA} :
            /\ bytes = EncodeMessage(Some(i), tag_str, StrNull[1])
                  => parsed = Ok([identifier |-> i,
                                  data_type  |-> Type_StrData([data |-> None])])
            /\ bytes \in {EncodeMessage(Some(i), tag_str, StrNull[1] \o <<0>>),
                          EncodeMessage(Some(i), tag_str, StrA[1] \o <<0>>)}
                  => IsParseError(parsed)

\* C26: Parse::pointer, Parse::long and Parse::time never panic, and a
\* length byte that declares more bytes than follow it yields a ParseError.
C26_LengthByteBeyondInput ==
    called \in {"Parse_pointer", "Parse_long", "Parse_time"} =>
        /\ parsed.st # "Panic"
        /\ (Len(bytes) >= 1 /\ bytes[1] > Len(bytes) - 1) => IsParseError(parsed)

\* the total length a 5-byte header declares
DeclaredTotal == bytes_to_i32(index(bytes, 0, 4)).val

\* C29: a header that declares a total length below 5 yields a ParseError:
\* no Header is returned for it.
C29_ShortTotalIsParseError ==
    (called \in {"Header_new", "message_header_MessageHeader_new", "MessageHeader_new"}
       /\ Len(bytes) = HEADER_LENGTH /\ DeclaredTotal < HEADER_LENGTH)
        => IsParseError(parsed)

\* the position of the first element of the container being decoded, and
\* the number of objects one pass of its loop decodes
FirstPos ==
    CASE called = "Parse_array_loop"     -> 7
      [] called = "Parse_hashtable_loop" -> 10
      [] called = "HData_new_loop"       -> hdata_head(bytes).val.cur_pos
PerPass ==
    CASE called = "Parse_array_loop"     -> 1
      [] called = "Parse_hashtable_loop" -> 2
      [] called = "HData_new_loop"       ->
             Len(hdata_head(bytes).val.paths) + Len(hdata_head(bytes).val.keys)

\* the count a container declares, when the decoder gets as far as its loop
DeclaredCount ==
    CASE called = "Parse_array" /\ Len(bytes) >= 7
            /\ from_utf8(index(bytes, 0, 3)).st = "Ok" ->
              Some(bytes_to_i32(index(bytes, 3, 7)).val)
      [] called = "Parse_hashtable" /\ Len(bytes) >= 10
            /\ from_utf8(index(bytes, 0, 3)).st = "Ok"
            /\ from_utf8(index(bytes, 3, 6)).st = "Ok" ->
              Some(bytes_to_i32(index(bytes, 6, 10)).val)
      [] called = "HData_new_loop" /\ parsed.st # "Loop" /\ hdata_head(bytes).st = "Ok" ->
              Some(hdata_head(bytes).val.num_hdata_items)
      [] OTHER -> None
EmptyContainer ==
    CASE called = "Parse_array"     -> Ok(Parse(Object_Arr(<<>>), 7))
      [] called = "Parse_hashtable" -> Ok(Parse(Object_Htb(<<>>), 10))
      [] called = "HData_new_loop"  -> Ok(hdata_HData(<<>>))

\* what C30 states of every state, and of every step
C30_LoopInv ==
    /\ parsed.st = "Loop" =>
          /\ FirstPos + PerPass * parsed.val.passes <= parsed.val.cur_pos
          /\ parsed.val.cur_pos <= Len(bytes)
          /\ parsed.val.passes <= Len(bytes)
    /\ (DeclaredCount # None /\ DeclaredCount[2] <= 0) => parsed = EmptyContainer
C30_CursorAdvances ==
    (parsed.st = "Loop" /\ parsed'.st = "Loop") => parsed'.val.cur_pos > parsed.val.cur_pos
\* C30: inside the loop of Parse::array, Parse::hashtable and HData::new
\* every object decoded has consumed at least one byte and the cursor is
\* within the slice, so that the passes made never exceed the length of the
\* slice, whatever count it declares; the cursor never moves backwards; and
\* a declared count of zero or less yields the empty container.
C30_DecodingTerminates == []C30_LoopInv /\ [][C30_CursorAdvances]_vars

C30_Witness ==
    /\ called = "Parse_array_loop"
    /\ parsed.st = "Loop"
    /\ parsed.val.passes >= 2
    /\ parsed.val.remaining > Len(bytes)

====
